---- MODULE Spec2Model ----
(***************************************************************************)
(* A model of jschon's resource layer (jschon/resource.py), JSON tree      *)
(* (jschon/json.py) and catalog (jschon/catalog/__init__.py).              *)
(*                                                                         *)
(* Nodes are numbered 1..Len(parent) in order of creation; 0 stands for    *)
(* "no node".  A URI is a record [base, frag]: base 0 is a relative        *)
(* same-document reference, a positive base is a caller-chosen absolute    *)
(* URI, a negative base -k is the k-th URN produced by the default URI     *)
(* factory.  A fragment is [kind, val] with kind "none" (no fragment),     *)
(* "ptr" (a JSON Pointer fragment, val its tokens; <<>> is the empty       *)
(* fragment) or "name" (any other fragment).                               *)
(***************************************************************************)
EXTENDS Integers, Sequences, FiniteSets, TLC

VARIABLES
    parent,                \* JSON.parent, 0 for a document root
    key,                   \* JSON.key
    type,                  \* JSON.type: "object", "array" or "string"
    data,                  \* JSON.data of arrays and objects: the child nodes in order
    path,                  \* the cached_property JSON.path: [has, val]
    cached_value,          \* the cached_property JSON.value: [has, val]
    cacheid,               \* JSONResource.cacheid
    uri,                   \* JSONResource._uri
    base_uri,              \* JSONResource._base_uri
    additional_uris,       \* JSONResource._additional_uris
    pointer_uri,           \* the cached_property JSONResource.pointer_uri (None: not cached)
    children_in_resource,  \* the generator cached by JSONResource.children_in_resource
    references_resolved,   \* JSONResource.references_resolved
    schema_cache,          \* Catalog._schema_cache: cacheid -> (URI -> node)
    uuid,                  \* number of URNs handed out by DEFAULT_URI_FACTORY so far
    auto_resolve_references, \* Catalog._auto_resolve_references
    uri_sources,           \* Catalog._uri_sources: prefix string -> source
    scopes,                \* the open `with catalog.cache(id)` scopes, innermost last
    steps,                 \* number of operations performed
    last,                  \* the operation performed by the last step, its outcome and
                           \* the add_resource / del_resource calls it made
    registered,            \* every <<cacheid, uri, node>> add_resource was ever called with
    cin,                   \* input of the uris_for call under examination
    cout                   \* its result

vars == <<parent, key, type, data, path, cached_value, cacheid, uri, base_uri, additional_uris,
          pointer_uri, children_in_resource, references_resolved, schema_cache,
          uuid, auto_resolve_references, uri_sources, scopes, steps, last, registered,
          cin, cout>>

-----------------------------------------------------------------------------
(* Bounds *)

MaxNodes == 4
MaxSteps == 3
MaxScopes == 2

-----------------------------------------------------------------------------
(* URIs and JSON Pointers *)

NoFrag == [kind |-> "none", val |-> <<>>]
PtrFrag(p) == [kind |-> "ptr", val |-> p]
NameFrag(a) == [kind |-> "name", val |-> <<a>>]

None == [base |-> 0, frag |-> [kind |-> "unset", val |-> <<>>]]

MkURI(b, f) == [base |-> b, frag |-> f]

\* URI.copy(fragment=f)
copy(u, f) == [u EXCEPT !.frag = f]

\* URI.has_absolute_base()
has_absolute_base(u) == u.base # 0

\* URI.resolve(base) for a reference with an empty path (RFC 3986 5.2.2)
resolve(u, b) == IF u.base # 0 THEN u ELSE MkURI(b.base, u.frag)

\* JSONPointer.uri_fragment()
uri_fragment(p) == PtrFrag(p)

\* str(int) as used for array keys
DecStr(i) ==
    CASE i = -8 -> "-8" [] i = -7 -> "-7" [] i = -6 -> "-6" [] i = -5 -> "-5"
      [] i = -4 -> "-4" [] i = -3 -> "-3" [] i = -2 -> "-2" [] i = -1 -> "-1"
      [] i = 0 -> "0" [] i = 1 -> "1" [] i = 2 -> "2" [] i = 3 -> "3"
      [] i = 4 -> "4" [] i = 5 -> "5" [] i = 6 -> "6" [] i = 7 -> "7"
      [] i = 8 -> "8" [] i = 9 -> "9" [] i = 10 -> "10" [] i = 11 -> "11"
      [] OTHER -> "12"

\* int(str) as used for array keys
StrDec(s) == CHOOSE i \in -8..12 : DecStr(i) = s

\* The k-th URI made by the default factory
URN(k) == MkURI(0 - k, NoFrag)

-----------------------------------------------------------------------------
(* The program state as one value, so that nested calls can thread it *)

World ==
    [parent |-> parent, key |-> key, type |-> type, data |-> data, path |-> path,
     value |-> cached_value, cacheid |-> cacheid, uri |-> uri, base_uri |-> base_uri,
     additional_uris |-> additional_uris, pointer_uri |-> pointer_uri,
     children_in_resource |-> children_in_resource,
     references_resolved |-> references_resolved,
     schema_cache |-> schema_cache, uuid |-> uuid, err |-> "none", log |-> {}]

Commit(w) ==
    /\ parent' = w.parent
    /\ key' = w.key
    /\ type' = w.type
    /\ data' = w.data
    /\ path' = w.path
    /\ cached_value' = w.value
    /\ cacheid' = w.cacheid
    /\ uri' = w.uri
    /\ base_uri' = w.base_uri
    /\ additional_uris' = w.additional_uris
    /\ pointer_uri' = w.pointer_uri
    /\ children_in_resource' = w.children_in_resource
    /\ references_resolved' = w.references_resolved
    /\ schema_cache' = w.schema_cache
    /\ uuid' = w.uuid

Nodes(w) == 1..Len(w.parent)

\* Items of a Python list slice seq[i:]
SliceFrom(seq, i) ==
    LET n == Len(seq)
        start == IF i < 0 THEN (IF n + i < 0 THEN 0 ELSE n + i)
                 ELSE (IF i > n THEN n ELSE i)
    IN SubSeq(seq, start + 1, n)

\* list.insert(i, x)
ListInsert(seq, i, x) ==
    LET n == Len(seq)
        at == IF i < 0 THEN (IF n + i < 0 THEN 0 ELSE n + i)
              ELSE (IF i > n THEN n ELSE i)
    IN SubSeq(seq, 1, at) \o <<x>> \o SubSeq(seq, at + 1, n)

\* del list[i], for an index the list accepts
ListDelete(seq, i) ==
    LET n == Len(seq)
        at == IF i < 0 THEN n + i ELSE i
    IN SubSeq(seq, 1, at) \o SubSeq(seq, at + 2, n)

-----------------------------------------------------------------------------
(* jschon/json.py *)

RECURSIVE KeysToRoot(_, _)
KeysToRoot(w, n) ==
    IF w.parent[n] = 0 THEN <<>> ELSE Append(KeysToRoot(w, w.parent[n]), w.key[n])

\* JSON.path: computed from the keys on first use, then cached
path_get(w, n) ==
    IF w.path[n].has THEN w
    ELSE [w EXCEPT !.path[n] = [has |-> TRUE, val |-> KeysToRoot(w, n)]]

-----------------------------------------------------------------------------
(* jschon/catalog/__init__.py: the cache *)

EmptyCache == [u \in {} |-> 0]

\* add_resource, had it replaced the cache by {uri: resource}
add_resource_afresh(w, u, x, c) ==
    [w EXCEPT !.schema_cache =
            [d \in DOMAIN w.schema_cache \cup {c} |->
                IF d = c THEN (u :> x) ELSE w.schema_cache[d]],
                 !.log = @ \cup {<<"add", c, u, x>>}]

\* Catalog.add_resource
add_resource(w, u, x, c) ==
    LET old == IF c \in DOMAIN w.schema_cache THEN w.schema_cache[c] ELSE EmptyCache
        new == [v \in DOMAIN old \cup {u} |-> IF v = u THEN x ELSE old[v]]
    IN [w EXCEPT !.schema_cache =
            [d \in DOMAIN w.schema_cache \cup {c} |->
                IF d = c THEN new ELSE w.schema_cache[d]],
                 !.log = @ \cup {<<"add", c, u, x>>}]

\* del_resource, had the catalog kept one cache for all cache-ids
del_resource_everywhere(w, u, c) ==
    [w EXCEPT !.schema_cache =
            [d \in DOMAIN w.schema_cache |->
                [v \in DOMAIN w.schema_cache[d] \ {u} |-> w.schema_cache[d][v]]],
              !.log = @ \cup {<<"del", c, u, 0>>}]

\* Catalog.del_resource
del_resource(w, u, c) ==
    IF c \in DOMAIN w.schema_cache
    THEN [w EXCEPT !.schema_cache[c] =
            [v \in DOMAIN w.schema_cache[c] \ {u} |-> w.schema_cache[c][v]],
                   !.log = @ \cup {<<"del", c, u, 0>>}]
    ELSE [w EXCEPT !.log = @ \cup {<<"del", c, u, 0>>}]

-----------------------------------------------------------------------------
(* jschon/resource.py *)

\* JSONResource.is_resource_root
is_resource_root(w, n) == w.parent[n] = 0

\* JSONResource.resource_root
RECURSIVE resource_root(_, _)
resource_root(w, n) ==
    IF is_resource_root(w, n) THEN n ELSE resource_root(w, w.parent[n])

\* res_root.uri.copy(fragment=node.path[len(res_root.path):].uri_fragment())
pointer_uri_from(w, n, r) ==
    [w |-> w,
     val |-> copy(w.uri[r],
                  uri_fragment(SubSeq(w.path[n].val, Len(w.path[r].val) + 1,
                                      Len(w.path[n].val))))]

\* ResourceURIs.pointer_uri_for: reads node.path and res_root.path
pointer_uri_for(w, n) ==
    pointer_uri_from(path_get(path_get(w, n), resource_root(w, n)), n, resource_root(w, n))

\* cached_property: the value computed is kept in the instance
pointer_uri_cached(r, n) == [w |-> [r.w EXCEPT !.pointer_uri[n] = r.val], val |-> r.val]

\* JSONResource.pointer_uri, a cached_property
pointer_uri_get(w, n) ==
    IF w.pointer_uri[n] # None THEN [w |-> w, val |-> w.pointer_uri[n]]
    ELSE pointer_uri_cached(pointer_uri_for(w, n), n)

\* DEFAULT_URI_FACTORY, had it returned one fixed URN
DEFAULT_URI_FACTORY_fixed(w) ==
    [w |-> [w EXCEPT !.uuid = 1], val |-> URN(1)]

\* DEFAULT_URI_FACTORY
DEFAULT_URI_FACTORY(w) ==
    [w |-> [w EXCEPT !.uuid = w.uuid + 1], val |-> URN(w.uuid + 1)]

ResourceURIs(w, e, r, p, b, a) ==
    [w |-> w, err |-> e, register_uri |-> r, property_uri |-> p, base_uri |-> b,
     additional_uris |-> a]

\* Non-JSON Pointer fragment at sub-document node
uris_for_subdocument(ptr_uri, u) ==
    ResourceURIs(ptr_uri.w, "none", TRUE, u, copy(ptr_uri.val, NoFrag), {})

\* uri is None at a sub-document node
uris_for_pointer(ptr_uri, r) ==
    ResourceURIs(ptr_uri.w, "none", FALSE, ptr_uri.val, ptr_uri.w.base_uri[r], {})

\* uris_for, had it kept the empty fragment
uris_for_absolute_unstripped(w, n, u) ==
    IF u.frag.kind = "none" THEN ResourceURIs(w, "none", TRUE, u, u, {})
    ELSE IF u.frag = PtrFrag(<<>>)
    THEN ResourceURIs(w, "none", TRUE, u, copy(u, NoFrag), {})
    ELSE IF u.frag.kind = "ptr"
    THEN ResourceURIs(w, "none", FALSE, u, copy(u, NoFrag), {})
    ELSE IF is_resource_root(w, n)
    THEN ResourceURIs(w, "none", TRUE, copy(u, NoFrag), copy(u, NoFrag), {u})
    ELSE uris_for_subdocument(pointer_uri_for(w, n), u)

\* The part of ResourceURIs.uris_for after the URI is known to be absolute
uris_for_absolute(w, n, u) ==
    IF u.frag.kind = "none" THEN ResourceURIs(w, "none", TRUE, u, u, {})
    ELSE IF u.frag = PtrFrag(<<>>)
    THEN ResourceURIs(w, "none", TRUE, copy(u, NoFrag), copy(u, NoFrag), {})
    ELSE IF u.frag.kind = "ptr"
    THEN ResourceURIs(w, "none", FALSE, u, copy(u, NoFrag), {})
    ELSE IF is_resource_root(w, n)
    THEN ResourceURIs(w, "none", TRUE, copy(u, NoFrag), copy(u, NoFrag), {u})
    ELSE uris_for_subdocument(pointer_uri_for(w, n), u)

\* The base URI a relative reference is resolved against
base_uri_for(w, n, initial_base_uri) ==
    LET d == DEFAULT_URI_FACTORY(w)
    IN IF is_resource_root(w, n)
       THEN IF initial_base_uri = None THEN d
            ELSE IF ~has_absolute_base(initial_base_uri)
            THEN [w |-> d.w, val |-> resolve(initial_base_uri, d.val)]
            ELSE [w |-> w, val |-> initial_base_uri]
       ELSE [w |-> w, val |-> w.base_uri[resource_root(w, n)]]

\* uri = uri.resolve(base_uri), and on to the absolute forms
uris_for_resolved(b, n, u) == uris_for_absolute(b.w, n, resolve(u, b.val))

\* ResourceURIs.uris_for
uris_for(w, n, u, initial_base_uri) ==
    IF u = None
    THEN IF is_resource_root(w, n)
         THEN LET d == DEFAULT_URI_FACTORY(w)
              IN ResourceURIs(d.w, "none", TRUE, d.val, d.val, {})
         ELSE uris_for_pointer(pointer_uri_for(w, n), resource_root(w, n))
    ELSE IF ~has_absolute_base(u)
    THEN IF u = MkURI(0, NoFrag)
         THEN ResourceURIs(w, "DuplicateResourceURIError", FALSE, None, None, {})
         ELSE uris_for_resolved(base_uri_for(w, n, initial_base_uri), n, u)
    ELSE uris_for_absolute(w, n, u)

\* The kept URIs, had the setter not discarded the node's own uri
kept_additional_uris_with_own(uris, own) ==
    {IF u.frag = PtrFrag(<<>>) THEN copy(u, NoFrag) ELSE u :
        u \in {v \in uris : v.frag.kind # "ptr" \/ v.frag.val = <<>>}}

\* The URIs the additional_uris setter keeps of the set assigned to it
kept_additional_uris(uris, own) ==
    {IF u.frag = PtrFrag(<<>>) THEN copy(u, NoFrag) ELSE u :
        u \in {v \in uris : v.frag.kind # "ptr" \/ v.frag.val = <<>>}} \ {own}

RECURSIVE del_resources(_, _, _)
del_resources(w, s, c) ==
    IF s = {} THEN w
    ELSE LET x == CHOOSE y \in s : TRUE
         IN del_resources(del_resource(w, x, c), s \ {x}, c)

RECURSIVE add_resources(_, _, _, _)
add_resources(w, s, n, c) ==
    IF s = {} THEN w
    ELSE LET x == CHOOSE y \in s : TRUE
         IN add_resources(add_resource(w, x, n, c), s \ {x}, n, c)

\* The additional_uris setter, had it not registered the added URIs
set_additional_uris_unregistered(w, n, uris) ==
    LET kept == kept_additional_uris(uris, w.uri[n])
        removed == w.additional_uris[n] \ kept
        w1 == del_resources(w, removed, w.cacheid[n])
    IN [w1 EXCEPT !.additional_uris[n] = kept]

\* JSONResource.additional_uris setter
set_additional_uris(w, n, uris) ==
    LET kept == kept_additional_uris(uris, w.uri[n])
        removed == w.additional_uris[n] \ kept
        added == kept \ w.additional_uris[n]
        w1 == del_resources(w, removed, w.cacheid[n])
        w2 == add_resources(w1, added, n, w.cacheid[n])
    IN [w2 EXCEPT !.additional_uris[n] = kept]

\* JSONResource.children_in_resource: a cached_property holding a generator,
\* which yields the children on its first traversal and nothing afterwards
children_in_resource_get(w, n) ==
    [w |-> [w EXCEPT !.children_in_resource[n] = "exhausted"],
     val |-> IF w.children_in_resource[n] = "exhausted" THEN <<>>
             ELSE SelectSeq(w.data[n], LAMBDA ch : ~is_resource_root(w, ch))]

\* The registration, had it left the old URI in the cache
register_keeping_old(w, n, old_uri, uris) ==
    IF uris.register_uri
    THEN add_resource(w, uris.property_uri, n, w.cacheid[n])
    ELSE w

\* The registration at the end of JSONResource._set_uri
register(w, n, old_uri, uris) ==
    IF uris.register_uri
    THEN add_resource(
            IF old_uri # None /\ old_uri # uris.property_uri
            THEN del_resource(w, old_uri, w.cacheid[n]) ELSE w,
            uris.property_uri, n, w.cacheid[n])
    ELSE w

\* JSONResource._set_uri; the uri setter is set_uri(w, n, u, None)
RECURSIVE set_uri(_, _, _, _)
RECURSIVE set_uri_from(_, _, _)
RECURSIVE set_uri_propagate(_, _, _)
RECURSIVE set_uri_children(_, _, _, _)

set_uri(w, n, u, initial_base_uri) ==
    set_uri_from(w, n, uris_for(w, n, u, initial_base_uri))

\* _set_uri once the URIs are determined
set_uri_from(w, n, uris) ==
    IF uris.err # "none" THEN [w EXCEPT !.err = uris.err]
    ELSE register(
            set_uri_propagate(
                set_additional_uris(
                    [uris.w EXCEPT !.uri[n] = uris.property_uri,
                                   !.base_uri[n] = uris.base_uri],
                    n, uris.w.additional_uris[n] \cup uris.additional_uris),
                n, w.base_uri[n]),
            n, w.uri[n], uris)

\* `if old_base is not None and old_base != self.base_uri: ...`
set_uri_propagate(w, n, old_base) ==
    IF old_base # None /\ old_base # w.base_uri[n]
    THEN LET g == children_in_resource_get([w EXCEPT !.pointer_uri[n] = None], n)
         IN set_uri_children(g.w, n, g.val, 1)
    ELSE w

\* the loop `for child in self.children_in_resource: child.uri = ...`
set_uri_children(w, n, todo, i) ==
    IF i > Len(todo) THEN w
    ELSE set_uri_children(
            set_uri(w, todo[i], copy(w.base_uri[n], w.uri[todo[i]].frag), None),
            n, todo, i + 1)

\* no value cached: the attribute is not in the instance's __dict__
NotCached == [has |-> FALSE, val |-> [type |-> "string", items |-> <<>>]]

\* _invalidate_value, had it not gone on to the parent
invalidate_value_self(w, n) ==
    [w EXCEPT !.children_in_resource[n] = "fresh", !.value[n] = NotCached]

\* JSONResource._invalidate_value, with JSON._invalidate_value deleting the cached
\* value and going up the parents
RECURSIVE invalidate_value(_, _)
invalidate_value(w, n) ==
    LET w1 == [w EXCEPT !.children_in_resource[n] = "fresh", !.value[n] = NotCached]
    IN IF w.parent[n] = 0 THEN w1 ELSE invalidate_value(w1, w.parent[n])

\* JSONResource._invalidate_path, with JSON._invalidate_path going down the children
RECURSIVE invalidate_path(_, _)
RECURSIVE invalidate_path_from(_, _)
RECURSIVE invalidate_path_uri(_, _, _)
RECURSIVE invalidate_paths(_, _, _)

\* self.uri = u, u just read from a property
set_uri_to(u, n) == set_uri(u.w, n, u.val, None)

invalidate_path(w, n) == invalidate_path_from(pointer_uri_get(w, n), n)

\* the deletions, the descent into the children, and `if uri_is_pointer_uri: ...`
invalidate_path_from(pu, n) ==
    invalidate_path_uri(
        invalidate_paths([pu.w EXCEPT !.pointer_uri[n] = None,
                                      !.path[n] = [has |-> FALSE, val |-> <<>>]],
                         pu.w.data[n], 1),
        n, pu.val = pu.w.uri[n])

\* `if uri_is_pointer_uri: self.uri = self.pointer_uri`
invalidate_path_uri(w, n, uri_is_pointer_uri) ==
    IF uri_is_pointer_uri THEN set_uri_to(pointer_uri_get(w, n), n) ELSE w

invalidate_paths(w, items, i) ==
    IF i > Len(items) THEN w
    ELSE invalidate_paths(invalidate_path(w, items[i]), items, i + 1)

-----------------------------------------------------------------------------
(* Construction: JSON.__init__, JSONResource.__init__ and pre_recursion_init *)

\* JSON-compatible values: [type, items], items the members [k, v] in order
StringValue == [type |-> "string", items |-> <<>>]
ArrayValue(vs) == [type |-> "array",
                   items |-> [i \in 1..Len(vs) |-> [k |-> DecStr(i - 1), v |-> vs[i]]]]
ObjectValue(k, v) == [type |-> "object", items |-> <<[k |-> k, v |-> v]>>]

RECURSIVE ValueSize(_)
RECURSIVE ValueSizes(_, _)
ValueSize(v) == 1 + ValueSizes(v.items, 1)
ValueSizes(items, i) ==
    IF i > Len(items) THEN 0 ELSE ValueSize(items[i].v) + ValueSizes(items, i + 1)

\* The state with one more node, as it is when pre_recursion_init starts
new_node(w, par, k, t, c) ==
    [w EXCEPT !.parent = Append(@, par),
              !.key = Append(@, k),
              !.type = Append(@, t),
              !.data = Append(@, <<>>),
              !.path = Append(@, [has |-> FALSE, val |-> <<>>]),
              !.value = Append(@, NotCached),
              !.cacheid = Append(@, c),
              !.uri = Append(@, None),
              !.base_uri = Append(@, None),
              !.additional_uris = Append(@, {}),
              !.pointer_uri = Append(@, None),
              !.children_in_resource = Append(@, "fresh"),
              !.references_resolved = Append(@, FALSE)]

\* `self.additional_uris |= {au.resolve(self._base_uri) for au in additional_uris}`
pre_recursion_init_additional(w, n, additional) ==
    IF w.err # "none" THEN w
    ELSE set_additional_uris(w, n,
            w.additional_uris[n] \cup {resolve(au, w.base_uri[n]) : au \in additional})

\* JSONResource.pre_recursion_init
pre_recursion_init(w, n, u, additional, initial_base_uri) ==
    pre_recursion_init_additional(set_uri(w, n, u, initial_base_uri), n, additional)

\* self.data = ...; `if parent is None and resolve_references: ...`
JSONResource_done(r, n, par, resolve_references) ==
    [r.w EXCEPT !.data[n] = r.ids,
                !.references_resolved[n] = (par = 0 /\ resolve_references)]

\* JSONResource.__init__(value, parent=par, key=k, cacheid=c, uri=u, ...);
\* the new node is number Len(w.parent) + 1
RECURSIVE JSONResource(_, _, _, _, _, _, _, _, _)
RECURSIVE JSONResource_items(_, _, _, _, _, _)
RECURSIVE instantiate(_, _, _, _, _)

JSONResource(w, value, par, k, c, u, additional, initial_base_uri, resolve_references) ==
    JSONResource_items(
        w,
        pre_recursion_init(new_node(w, par, k, value.type, c), Len(w.parent) + 1, u,
                           additional, initial_base_uri),
        Len(w.parent) + 1, value, par, resolve_references)

\* JSON.__init__ after pre_recursion_init: the items; an error leaves no node behind
JSONResource_items(w, w1, n, value, par, resolve_references) ==
    IF w1.err # "none" THEN [w EXCEPT !.err = w1.err]
    ELSE JSONResource_done(instantiate(w1, n, value.items, 1, <<>>), n, par,
                           resolve_references)

\* JSON.instantiate_sequence and instantiate_mapping
instantiate(w, n, items, i, ids) ==
    IF i > Len(items) THEN [w |-> w, ids |-> ids]
    ELSE instantiate(
            JSONResource(w, items[i].v, n, items[i].k, w.cacheid[n], None, {}, None, TRUE),
            n, items, i + 1, Append(ids, Len(w.parent) + 1))

-----------------------------------------------------------------------------
(* Mutation of arrays: JSON.insert and JSON.__delitem__ *)

RECURSIVE rekey(_, _, _, _)
rekey(w, items, i, delta) ==
    IF i > Len(items) THEN w
    ELSE rekey(invalidate_path([w EXCEPT !.key[items[i]] = DecStr(StrDec(@) + delta)],
                               items[i]),
               items, i + 1, delta)

\* `for item in self.data[index:]: item.key = str(int(item.key) + delta); ...`
rekey_from(w, a, index, delta) == rekey(w, SliceFrom(w.data[a], index), 1, delta)

\* JSON.value: the data of node n as a JSON-compatible value
RECURSIVE value_get(_, _)
value_get(w, n) ==
    [type |-> w.type[n],
     items |-> [i \in 1..Len(w.data[n]) |->
                    [k |-> IF w.type[n] = "array" THEN DecStr(i - 1)
                           ELSE w.key[w.data[n][i]],
                     v |-> value_get(w, w.data[n][i])]]]

\* The cached_property JSON.value: the cached value, else the value made of the
\* items' values, which are read, and so cached, in order
RECURSIVE JSON_value(_, _)
RECURSIVE JSON_values(_, _, _, _)
JSON_value(w, n) ==
    IF w.value[n].has THEN [w |-> w, val |-> w.value[n].val]
    ELSE JSON_values(w, n, 1, <<>>)

JSON_values(w, n, i, items) ==
    IF i > Len(w.data[n])
    THEN [w |-> [w EXCEPT !.value[n] =
                    [has |-> TRUE, val |-> [type |-> w.type[n], items |-> items]]],
          val |-> [type |-> w.type[n], items |-> items]]
    ELSE JSON_values(
            JSON_value(w, w.data[n][i]).w, n, i + 1,
            Append(items, [k |-> IF w.type[n] = "array" THEN DecStr(i - 1)
                                 ELSE w.key[w.data[n][i]],
                           v |-> JSON_value(w, w.data[n][i]).val]))

\* JSON.insert, had it stored the node it is given instead of a copy of its value
insert_shared(w, a, index, obj) ==
    IF "node" \in DOMAIN obj
    THEN rekey_from(
            invalidate_value([w EXCEPT !.data[a] = ListInsert(@, index, obj.node)], a),
            a, index + 1, 1)
    ELSE rekey_from(
            invalidate_value(
                [JSONResource(w, obj, a, DecStr(index), w.cacheid[a], None, {}, None, TRUE)
                    EXCEPT !.data[a] = ListInsert(@, index, Len(w.parent) + 1)],
                a),
            a, index + 1, 1)

\* JSON.insert(index, obj); obj is a JSON-compatible value or [node |-> x], the JSON
\* node x, of which the value is taken
insert(w, a, index, obj) ==
    rekey_from(
        invalidate_value(
            [JSONResource(w, IF "node" \in DOMAIN obj THEN value_get(w, obj.node) ELSE obj,
                          a, DecStr(index), w.cacheid[a], None, {}, None, TRUE)
                EXCEPT !.data[a] = ListInsert(@, index, Len(w.parent) + 1)],
            a),
        a, index + 1, 1)

\* JSON.__setitem__(index, obj) with k = str(index): the member with that key, or the
\* item at that index, becomes a new node made from obj; an object gets a new member
setitem(w, p, k, obj) ==
    LET hits == {i \in 1..Len(w.data[p]) :
                    IF w.type[p] = "array" THEN DecStr(i - 1) = k
                    ELSE w.key[w.data[p][i]] = k}
    IN IF hits = {} /\ w.type[p] = "array" THEN [w EXCEPT !.err = "IndexError"]
       ELSE invalidate_value(
                [JSONResource(w, IF "node" \in DOMAIN obj THEN value_get(w, obj.node) ELSE obj,
                              p, k, w.cacheid[p], None, {}, None, TRUE)
                    EXCEPT !.data[p] =
                        IF hits = {} THEN Append(@, Len(w.parent) + 1)
                        ELSE [@ EXCEPT ![CHOOSE i \in hits : TRUE] = Len(w.parent) + 1]],
                p)

\* JSON.__delitem__(index) on an array
delitem(w, a, index) ==
    IF index >= Len(w.data[a]) \/ index < 0 - Len(w.data[a])
    THEN [w EXCEPT !.err = "IndexError"]
    ELSE rekey_from(invalidate_value([w EXCEPT !.data[a] = ListDelete(@, index)], a),
                    a, index, -1)

-----------------------------------------------------------------------------
(* jschon/catalog/__init__.py: loading and lookup *)

\* The documents behind the catalog's sources: bases 2 to 6 are served, nothing else
\* is; the documents 3, 4 and 5 are {"$ref": "..."}, document 6 is {"not": true}
SourceDocument(b) ==
    IF b = 2 THEN ObjectValue("foo", ArrayValue(<<StringValue>>))
    ELSE IF b = 6 THEN ObjectValue("not", StringValue)
    ELSE ObjectValue("$ref", StringValue)
SourceServes(b) == b \in 2..6

\* Catalog.load_json
load_json(u) ==
    IF u.base = 0 \/ u.frag.kind # "none" THEN [err |-> "CatalogError", doc |-> StringValue]
    ELSE IF SourceServes(u.base) THEN [err |-> "none", doc |-> SourceDocument(u.base)]
    ELSE [err |-> "CatalogError", doc |-> StringValue]

\* JSONPointer.evaluate on a document node; 0 stands for JSONPointerError
RECURSIVE evaluate(_, _, _)
evaluate(w, n, tokens) ==
    IF tokens = <<>> THEN n
    ELSE LET t == Head(tokens)
             hits == IF w.type[n] = "object"
                     THEN {i \in 1..Len(w.data[n]) : w.key[w.data[n][i]] = t}
                     ELSE IF w.type[n] = "array"
                     THEN {i \in 1..Len(w.data[n]) : DecStr(i - 1) = t}
                     ELSE {}
         IN IF hits = {} THEN 0
            ELSE evaluate(w, w.data[n][CHOOSE i \in hits : TRUE], Tail(tokens))

Found(w, x) == [w |-> w, err |-> "none", val |-> x, loaded |-> FALSE]
NotFound(w) == [w |-> w, err |-> "CatalogError", val |-> 0, loaded |-> FALSE]

Cached(w, u, c) == c \in DOMAIN w.schema_cache /\ u \in DOMAIN w.schema_cache[c]

\* The end of Catalog.get_resource: descend by the fragment, if it is not empty
get_resource_fragment(w, u, resource, loaded) ==
    IF u.frag.kind # "none" /\ u.frag # PtrFrag(<<>>)
    THEN LET target == IF u.frag.kind = "ptr" THEN evaluate(w, resource, u.frag.val)
                       ELSE 0
         IN IF target = 0 THEN [NotFound(w) EXCEPT !.loaded = loaded]
            ELSE [Found(w, target) EXCEPT !.loaded = loaded]
    ELSE [Found(w, resource) EXCEPT !.loaded = loaded]

\* Catalog.get_resource after the document is loaded and instantiated
get_resource_loaded(w, u, c, resource) ==
    IF Cached(w, u, c) THEN [Found(w, w.schema_cache[c][u]) EXCEPT !.loaded = TRUE]
    ELSE get_resource_fragment(w, u, resource, TRUE)

\* Catalog.get_resource(uri, cacheid=c), with cls = JSONResource
get_resource(w, u, c, resolve_references) ==
    IF Cached(w, u, c) THEN Found(w, w.schema_cache[c][u])
    ELSE IF u.frag.kind # "none" /\ Cached(w, copy(u, NoFrag), c)
    THEN get_resource_fragment(w, u, w.schema_cache[c][copy(u, NoFrag)], FALSE)
    ELSE IF load_json(copy(u, NoFrag)).err # "none" THEN NotFound(w)
    ELSE get_resource_loaded(
            JSONResource(w, load_json(copy(u, NoFrag)).doc, 0, "", c, copy(u, NoFrag),
                         {}, None, resolve_references),
            u, c, Len(w.parent) + 1)

\* Catalog.cache, had it popped the cache after the yield instead of in a finally
cache_exit_no_finally(w, c, exception) ==
    IF exception THEN w
    ELSE [w EXCEPT !.schema_cache =
                [d \in DOMAIN w.schema_cache \ {c} |-> w.schema_cache[d]],
                   !.log = @ \cup (IF c \in DOMAIN w.schema_cache
                                    THEN {<<"del", c, u, 0>> : u \in DOMAIN w.schema_cache[c]}
                                    ELSE {})]

\* The finally clause of Catalog.cache: self._schema_cache.pop(cacheid, None)
cache_exit(w, c, exception) ==
    [w EXCEPT !.schema_cache = [d \in DOMAIN w.schema_cache \ {c} |-> w.schema_cache[d]],
              !.log = @ \cup (IF c \in DOMAIN w.schema_cache
                               THEN {<<"del", c, u, 0>> : u \in DOMAIN w.schema_cache[c]}
                               ELSE {})]

-----------------------------------------------------------------------------
(* Reference resolution: JSONResource.resolve_references, Catalog.get_schema and *)
(* Catalog.resolve_references                                                     *)

\* The target of the "$ref" in the document with base b: 3 and 4 refer to each other,
\* 5 refers to a document that no source serves and no schema has
SourceReference(b) ==
    IF b = 3 THEN MkURI(4, NoFrag)
    ELSE IF b = 4 THEN MkURI(3, NoFrag)
    ELSE IF b = 5 THEN MkURI(7, NoFrag)
    ELSE None

\* The reference to resolve from node n; documents are told apart by their URI
Reference(w, n) ==
    IF w.parent[n] = 0 /\ w.uri[n] # None /\ w.type[n] = "object"
    THEN SourceReference(w.uri[n].base)
    ELSE None

RECURSIVE resolve_references(_, _, _)
RECURSIVE get_schema(_, _, _, _)

\* A schema document instantiated by the catalog: cls(doc, cacheid=c, uri=u,
\* resolve_references=resolving); auto is the catalog's _auto_resolve_references
JSONSchema(w, doc, c, u, resolving, auto) ==
    IF resolving
    THEN resolve_references(JSONResource(w, doc, 0, "", c, u, {}, None, FALSE),
                            Len(w.parent) + 1, auto)
    ELSE JSONResource(w, doc, 0, "", c, u, {}, None, FALSE)

\* get_resource, had it returned the node reached whatever its class
isinstance_any(r) == r

\* `if not isinstance(resource, cls): raise CatalogError` with cls the schema class: of
\* the nodes of the documents here, the roots and the values of "not" are schemas
isinstance_cls(r) ==
    IF r.err = "none" /\ ~(r.w.parent[r.val] = 0 \/ r.w.key[r.val] = "not")
    THEN [r EXCEPT !.err = "CatalogError", !.val = 0]
    ELSE r

\* Catalog.get_resource after the factory call
get_schema_loaded(w, u, c, resource) ==
    IF w.err # "none" THEN [NotFound(w) EXCEPT !.loaded = TRUE]
    ELSE IF Cached(w, u, c) THEN [Found(w, w.schema_cache[c][u]) EXCEPT !.loaded = TRUE]
    ELSE isinstance_cls(get_resource_fragment(w, u, resource, TRUE))

\* Catalog.get_schema(uri, cacheid=c): get_resource with the schema class as cls and
\* as factory
get_schema(w, u, c, auto) ==
    IF Cached(w, u, c) THEN Found(w, w.schema_cache[c][u])
    ELSE IF u.frag.kind # "none" /\ Cached(w, copy(u, NoFrag), c)
    THEN isinstance_cls(
            get_resource_fragment(w, u, w.schema_cache[c][copy(u, NoFrag)], FALSE))
    ELSE IF load_json(copy(u, NoFrag)).err # "none" THEN NotFound(w)
    ELSE get_schema_loaded(
            JSONSchema([w EXCEPT !.log = @ \cup {<<"load", c, copy(u, NoFrag), 0>>}],
                       load_json(copy(u, NoFrag)).doc, c, copy(u, NoFrag), auto, auto),
            u, c, Len(w.parent) + 1)

\* The reference of n is resolved, or the catalog could not find its target
reference_resolved(r, n) ==
    IF r.err # "none" THEN [r.w EXCEPT !.err = "CatalogError"]
    ELSE [r.w EXCEPT !.references_resolved[n] = TRUE]

\* n.resolve_references(): trivial for a node that has no reference; a reference
\* that was resolved is not resolved again
resolve_references(w, n, auto) ==
    IF w.err # "none" THEN w
    ELSE IF Reference(w, n) = None THEN [w EXCEPT !.references_resolved[n] = TRUE]
    ELSE IF w.references_resolved[n] THEN w
    ELSE reference_resolved(get_schema(w, Reference(w, n), w.cacheid[n], auto), n)

RECURSIVE resolve_references_pass(_, _, _, _)

\* The for loop, had it gone on to the next key when a resource failed to resolve
resolve_references_pass_on(w, c, cache_keys, auto) ==
    IF cache_keys = {} THEN {w}
    ELSE UNION {resolve_references_pass(
                    [resolve_references(w, w.schema_cache[c][k], auto) EXCEPT !.err = "none"],
                    c, cache_keys \ {k}, auto) : k \in cache_keys}

\* The for loop of Catalog.resolve_references over cache_keys, a frozenset or a set
\* difference: every order of iteration, hence a set of outcomes
resolve_references_pass(w, c, cache_keys, auto) ==
    IF w.err # "none" \/ cache_keys = {} THEN {w}
    ELSE UNION {resolve_references_pass(
                    resolve_references(w, w.schema_cache[c][k], auto),
                    c, cache_keys \ {k}, auto) : k \in cache_keys}

RECURSIVE resolve_references_loop(_, _, _, _, _)

\* Catalog.resolve_references, had it made one pass over the keys it found
resolve_references_once(w, c, resolved, auto) ==
    IF w.err = "none" /\ resolved = {} /\ DOMAIN w.schema_cache[c] # {}
    THEN resolve_references_loop(w, c, DOMAIN w.schema_cache[c], resolved, auto)
    ELSE {w}

\* `while len(resolved) < len(cache.keys())`, cache_keys being the keys not yet resolved
resolve_references_while(w, c, resolved, auto) ==
    IF w.err = "none" /\ Cardinality(resolved) < Cardinality(DOMAIN w.schema_cache[c])
    THEN resolve_references_loop(w, c, DOMAIN w.schema_cache[c] \ resolved, resolved, auto)
    ELSE {w}

\* One round of the while loop: the for loop, which adds its keys to resolved
resolve_references_loop(w, c, cache_keys, resolved, auto) ==
    UNION {resolve_references_while(w2, c, resolved \cup cache_keys, auto) :
           w2 \in resolve_references_pass(w, c, cache_keys, auto)}

\* Catalog.resolve_references(cacheid=c): the states it can end in
Catalog_resolve_references(w, c, auto) ==
    IF c \notin DOMAIN w.schema_cache THEN {[w EXCEPT !.err = "KeyError"]}
    ELSE resolve_references_while(w, c, {}, auto)

\* JSON.add, JSON.remove and JSON.replace with the empty path:
\* self.__init__(value, parent=self.parent, key=self.key, ...); self._invalidate_value()
replace(w, n, value) ==
    invalidate_value(
        JSONResource_done(
            instantiate(
                pre_recursion_init(
                    [w EXCEPT !.type[n] = value.type, !.data[n] = <<>>,
                              !.references_resolved[n] = FALSE, !.uri[n] = None,
                              !.base_uri[n] = None, !.additional_uris[n] = {}],
                    n, None, {}, None),
                n, value.items, 1, <<>>),
            n, w.parent[n], TRUE),
        n)

-----------------------------------------------------------------------------
(* JSON.add, JSON.remove and JSON.replace with a path *)

\* JSON.add, had it passed any integer index on to insert
add_unchecked(w, n, ptr, obj) ==
    LET target_parent == evaluate(w, n, SubSeq(ptr, 1, Len(ptr) - 1))
        target_key == ptr[Len(ptr)]
    IN IF ptr = <<>> \/ target_parent = 0 THEN [w EXCEPT !.err = "JSONError"]
       ELSE IF w.type[target_parent] = "array"
       THEN IF \E i \in -8..12 : DecStr(i) = target_key
            THEN insert(w, target_parent, StrDec(target_key), obj)
            ELSE insert(w, target_parent, Len(w.data[target_parent]), obj)
       ELSE IF w.type[target_parent] = "object"
       THEN setitem(w, target_parent, target_key, obj)
       ELSE [w EXCEPT !.err = "JSONError"]

\* JSON.add(path, obj) on node n
add(w, n, ptr, obj) ==
    IF ptr = <<>>
    THEN replace(w, n, IF "node" \in DOMAIN obj THEN value_get(w, obj.node) ELSE obj)
    ELSE LET target_parent == evaluate(w, n, SubSeq(ptr, 1, Len(ptr) - 1))
             target_key == ptr[Len(ptr)]
         IN IF target_parent = 0 THEN [w EXCEPT !.err = "JSONError"]
            ELSE IF w.type[target_parent] = "array"
            THEN IF target_key = "-"
                 THEN insert(w, target_parent, Len(w.data[target_parent]), obj)
                 ELSE IF /\ \E i \in -8..12 : DecStr(i) = target_key
                         /\ StrDec(target_key) \in 0..Len(w.data[target_parent])
                 THEN insert(w, target_parent, StrDec(target_key), obj)
                 ELSE [w EXCEPT !.err = "JSONError"]
            ELSE IF w.type[target_parent] = "object"
            THEN setitem(w, target_parent, target_key, obj)
            ELSE [w EXCEPT !.err = "JSONError"]

\* JSON.remove(path) on node n; the member of an object is deleted as __delitem__
\* does: del self.data[index]; self._invalidate_value()
remove(w, n, ptr) ==
    IF ptr = <<>> THEN replace(w, n, [type |-> "null", items |-> <<>>])
    ELSE LET target == evaluate(w, n, ptr)
         IN IF target = 0 THEN [w EXCEPT !.err = "JSONError"]
            ELSE IF w.type[w.parent[target]] = "array"
            THEN delitem(w, w.parent[target], StrDec(w.key[target]))
            ELSE invalidate_value(
                    [w EXCEPT !.data[w.parent[target]] =
                        SelectSeq(@, LAMBDA m : w.key[m] # w.key[target])],
                    w.parent[target])

\* JSON.replace(path, obj) on node n
replace_at(w, n, ptr, obj) ==
    IF ptr = <<>>
    THEN replace(w, n, IF "node" \in DOMAIN obj THEN value_get(w, obj.node) ELSE obj)
    ELSE LET target == evaluate(w, n, ptr)
         IN IF target = 0 THEN [w EXCEPT !.err = "JSONError"]
            ELSE setitem(w, w.parent[target], w.key[target], obj)

-----------------------------------------------------------------------------
(* URI sources: Catalog.add_uri_source and Catalog.load_json on URI strings.       *)
(* A URI string is the sequence of its parts: "http:" the scheme, "//e" a           *)
(* normalized authority, "//E" one that is not, "//n" another host, "/" and the     *)
(* path segments, "#" an empty fragment and "#bar" a fragment.  An optional URI is  *)
(* <<>> (None) or <<s>>.  _uri_sources maps prefix strings to sources.              *)

\* URI.validate(require_scheme=True, require_normalized=True, allow_fragment=False)
\* does not raise URIError
validate(s) ==
    /\ s # <<>> /\ s[1] = "http:"
    /\ \A i \in 1..Len(s) : s[i] \notin {"//E", "#", "#bar"}

\* add_uri_source, had it stored the source before it looked at the base URI
add_uri_source_unchecked(sources, base, source) ==
    IF base = <<>> THEN [err |-> "none", sources |-> (<<>> :> source) @@ sources]
    ELSE [err |-> IF ~validate(base[1]) \/ base[1][Len(base[1])] # "/"
                  THEN "CatalogError" ELSE "none",
          sources |-> (base[1] :> source) @@ sources]

\* Catalog.add_uri_source(base, source)
add_uri_source(sources, base, source) ==
    IF base = <<>> THEN [err |-> "none", sources |-> (<<>> :> source) @@ sources]
    ELSE IF ~validate(base[1]) THEN [err |-> "CatalogError", sources |-> sources]
    ELSE IF base[1][Len(base[1])] # "/"
    THEN [err |-> "CatalogError", sources |-> sources]
    ELSE [err |-> "none", sources |-> (base[1] :> source) @@ sources]

\* load_json, had it sorted the candidates without reverse=True
select_shortest(sources, uristr) ==
    LET candidates == {q \in DOMAIN sources :
                            Len(q) <= Len(uristr) /\ SubSeq(uristr, 1, Len(q)) = q}
    IN {q \in candidates : \A r \in candidates : Len(q) <= Len(r)}

\* The candidates of load_json and the first of them after the sort by length:
\* the prefix selected, none if there is no candidate
select_source(sources, uristr) ==
    LET candidates == {q \in DOMAIN sources :
                            Len(q) <= Len(uristr) /\ SubSeq(uristr, 1, Len(q)) = q}
    IN {q \in candidates : \A r \in candidates : Len(q) >= Len(r)}

\* source(relative_path): the "local" source has the one file "file" and raises
\* CatalogError for any other path (LocalSource.__call__); the "dict" source has
\* every path that ends in "file" and raises KeyError for the others
Source_call(source, relative_path) ==
    IF source = "local"
    THEN IF relative_path = <<"file">> THEN "none" ELSE "CatalogError"
    ELSE IF relative_path # <<>> /\ relative_path[Len(relative_path)] = "file"
    THEN "none" ELSE "KeyError"

\* load_json, had it called the source outside the try statement
call_source_unguarded(raised) == raised

\* `except CatalogError: raise` and `except Exception as e: raise CatalogError(...)`
call_source(raised) ==
    IF raised \in {"none", "CatalogError"} THEN raised ELSE "CatalogError"

\* Catalog.load_json(uri) with str(uri) = uristr: the error and the calls of sources
load_json_string(sources, uristr) ==
    IF ~validate(uristr) THEN [err |-> "CatalogError", calls |-> {}]
    ELSE IF select_source(sources, uristr) = {}
    THEN [err |-> "CatalogError", calls |-> {}]
    ELSE LET prefix == CHOOSE q \in select_source(sources, uristr) : TRUE
             relative_path == SubSeq(uristr, Len(prefix) + 1, Len(uristr))
         IN [err |-> call_source(Source_call(sources[prefix], relative_path)),
             calls |-> {<<"call", sources[prefix], relative_path, 0>>}]

-----------------------------------------------------------------------------
(* Catalog.create_metadocument, create_metaschema and get_metaschema *)

\* The verdict of the keywords other than "$ref" of the schema at node n: of the
\* documents here, the one with a "not" rejects every instance, itself included,
\* the others accept every instance.  metaschema.validate().valid is this verdict.
Metaschema_validate(w, n) ==
    \A i \in 1..Len(w.data[n]) : w.key[w.data[n][i]] # "not"

\* Catalog.create_metadocument(uri) with meta_cls = Metaschema, whose constructor
\* caches the new object under uri in '__meta__': the outcomes it can end in
create_metadocument(w, u, auto) ==
    IF load_json(copy(u, NoFrag)).err # "none" THEN {NotFound(w)}
    ELSE {IF w2.err # "none" \/ ~Metaschema_validate(w2, Len(w.parent) + 1)
          THEN NotFound([w2 EXCEPT !.err = "none"])
          ELSE Found(w2, Len(w.parent) + 1) :
            w2 \in IF auto
                   THEN {JSONSchema(w, load_json(copy(u, NoFrag)).doc, "__meta__", u,
                                    auto, auto)}
                   ELSE Catalog_resolve_references(
                            JSONSchema(w, load_json(copy(u, NoFrag)).doc, "__meta__", u,
                                       auto, auto),
                            "__meta__", auto)}

\* Catalog.create_metaschema(uri), without default vocabularies
create_metaschema(w, u, auto) ==
    IF load_json(u).err # "none" THEN {NotFound(w)}
    ELSE create_metadocument(w, u, auto)

\* Catalog.get_metaschema(uri): the cache entry if there is one and it is truthy,
\* else create_metaschema; then the isinstance check
get_metaschema(w, u, auto) ==
    IF /\ Cached(w, u, "__meta__")
       /\ ~(/\ w.type[w.schema_cache["__meta__"][u]] \in {"array", "object"}
            /\ w.data[w.schema_cache["__meta__"][u]] = <<>>)
    THEN {isinstance_cls(Found(w, w.schema_cache["__meta__"][u]))}
    ELSE {isinstance_cls(r) : r \in create_metaschema(w, u, auto)}

-----------------------------------------------------------------------------
(* Evaluation: JSONSchema.evaluate and RefKeyword.__call__ (jschon/keywords.py) *)

RECURSIVE JSONSchema_evaluate(_, _, _, _)

\* RefKeyword.__call__, had it dropped the referenced schema from the cache after use
RefKeyword_forget(w, n, auto, stack) ==
    IF get_schema(w, Reference(w, n), w.cacheid[n], auto).err # "none"
    THEN [w |-> get_schema(w, Reference(w, n), w.cacheid[n], auto).w,
          err |-> "CatalogError", val |-> FALSE]
    ELSE IF get_schema(w, Reference(w, n), w.cacheid[n], auto).val \in stack \cup {n}
    THEN [w |-> w, err |-> "RecursionError", val |-> FALSE]
    ELSE [JSONSchema_evaluate(get_schema(w, Reference(w, n), w.cacheid[n], auto).w,
                              get_schema(w, Reference(w, n), w.cacheid[n], auto).val,
                              auto, stack \cup {n})
            EXCEPT !.w = del_resource(@, Reference(w, n), w.cacheid[n])]

\* RefKeyword.__call__: refschema = JSONSchema.get(uri, ...); refschema(node).  The
\* schemas being evaluated are in stack; Python ends a reference cycle with a
\* RecursionError
RefKeyword(w, n, auto, stack) ==
    IF get_schema(w, Reference(w, n), w.cacheid[n], auto).err # "none"
    THEN [w |-> get_schema(w, Reference(w, n), w.cacheid[n], auto).w,
          err |-> "CatalogError", val |-> FALSE]
    ELSE IF get_schema(w, Reference(w, n), w.cacheid[n], auto).val \in stack \cup {n}
    THEN [w |-> w, err |-> "RecursionError", val |-> FALSE]
    ELSE JSONSchema_evaluate(get_schema(w, Reference(w, n), w.cacheid[n], auto).w,
                             get_schema(w, Reference(w, n), w.cacheid[n], auto).val,
                             auto, stack \cup {n})

\* schema.evaluate(instance) for the schema at node n: references that were deferred
\* are resolved first (tests/test_catalog.py, test_auto_resolution), then the
\* keywords are called; the result is valid iff every keyword passes
JSONSchema_evaluate(w, n, auto, stack) ==
    IF ~w.references_resolved[n]
    THEN IF resolve_references(w, n, auto).err # "none"
         THEN [w |-> [resolve_references(w, n, auto) EXCEPT !.err = "none"],
               err |-> "CatalogError", val |-> FALSE]
         ELSE JSONSchema_evaluate(resolve_references(w, n, auto), n, auto, stack)
    ELSE IF Reference(w, n) = None
    THEN [w |-> w, err |-> "none", val |-> Metaschema_validate(w, n)]
    ELSE [RefKeyword(w, n, auto, stack) EXCEPT !.val = @ /\ Metaschema_validate(w, n)]

-----------------------------------------------------------------------------
(* JSON equality (jschon/json.py) and keywords (jschon/keywords.py) as functions of   *)
(* Python values.  A value is [py, num, str, items, keys]: py the Python type; num    *)
(* the number counted in halves of an int, a float and a bool (True is 1); str the    *)
(* string; items the items of a list or the values of a dict in insertion order, and  *)
(* keys the keys of the dict in the same order.  A schema is [bool |-> b] or a record *)
(* of keyword values.  A node is [valid, annotated, annotation, children, err].       *)

RECURSIVE eq(_, _)

\* JSON.__eq__, had it compared the data whatever the types (in Python True == 1)
eq_untyped(self, other) ==
    IF self.py = "list" /\ other.py = "list"
    THEN /\ Len(self.items) = Len(other.items)
         /\ \A i \in 1..Len(self.items) : eq(self.items[i], other.items[i])
    ELSE IF self.py = "dict" /\ other.py = "dict"
    THEN /\ {self.keys[i] : i \in 1..Len(self.keys)}
                = {other.keys[j] : j \in 1..Len(other.keys)}
         /\ \A i \in 1..Len(self.keys) :
                eq(self.items[i],
                   other.items[CHOOSE j \in 1..Len(other.keys) :
                                other.keys[j] = self.keys[i]])
    ELSE IF {self.py, other.py} \subseteq {"bool", "int", "float"}
    THEN self.num = other.num
    ELSE self.py = other.py /\ self.num = other.num /\ self.str = other.str

\* JSON.__eq__(self, other); the type is the one JSON.__init__ gives the value, and
\* NotImplemented from both operands makes == false
eq(self, other) ==
    LET typeof(v) == CASE v.py = "NoneType" -> "null"
                     [] v.py = "bool" -> "boolean"
                     [] v.py \in {"int", "float"} -> "number"
                     [] v.py = "str" -> "string"
                     [] v.py = "list" -> "array"
                     [] OTHER -> "object"
    IN IF typeof(self) = typeof(other)
       THEN IF typeof(self) = "array"
            THEN /\ Len(self.items) = Len(other.items)
                 /\ \A i \in 1..Len(self.items) : eq(self.items[i], other.items[i])
            ELSE IF typeof(self) = "object"
            THEN /\ {self.keys[i] : i \in 1..Len(self.keys)}
                        = {other.keys[j] : j \in 1..Len(other.keys)}
                 /\ \A i \in 1..Len(self.keys) :
                        eq(self.items[i],
                           other.items[CHOOSE j \in 1..Len(other.keys) :
                                        other.keys[j] = self.keys[i]])
            ELSE self.num = other.num /\ self.str = other.str
       ELSE FALSE

RECURSIVE JSONSchema_call(_, _)

\* node.pass_(annotation) and node.fail(error): a failed node has no annotation
EvaluationNode(valid, annotated, annotation) ==
    [valid |-> valid, annotated |-> annotated, annotation |-> annotation,
     children |-> <<>>, err |-> "none", assert_ |-> TRUE, names |-> {}, applied |-> {}]

\* TypeKeyword.__call__ and MinimumKeyword.__call__ for the instance json
TypeKeyword(t, json) ==
    EvaluationNode(CASE t = "integer" -> json.py \in {"int", "float"} /\ json.num % 2 = 0
                     [] t = "number" -> json.py \in {"int", "float"}
                     [] t = "string" -> json.py = "str"
                     [] OTHER -> json.py = "list",
                   FALSE, 0)

MinimumKeyword(minimum, json) == EvaluationNode(json.num >= minimum, FALSE, 0)

\* OneOfKeyword.__call__, had it stopped at the second valid subschema
OneOfKeyword_until(subschemas, json) ==
    LET valid == {i \in 1..Len(subschemas) : JSONSchema_call(subschemas[i], json).valid}
        stop == IF Cardinality(valid) < 2 THEN Len(subschemas)
                ELSE CHOOSE i \in valid : Cardinality({j \in valid : j < i}) = 1
    IN [EvaluationNode(Cardinality(valid) = 1, FALSE, 0)
            EXCEPT !.children = [i \in 1..stop |-> i \in valid]]

\* OneOfKeyword.__call__: a child node per subschema, valid iff one child is valid
OneOfKeyword(subschemas, json) ==
    LET children == [i \in 1..Len(subschemas) |->
                        JSONSchema_call(subschemas[i], json).valid]
    IN [EvaluationNode(Cardinality({i \in 1..Len(children) : children[i]}) = 1, FALSE, 0)
            EXCEPT !.children = children,
                   !.names = IF Cardinality({i \in 1..Len(children) : children[i]}) = 1
                             THEN UNION {JSONSchema_call(subschemas[i], json).names :
                                            i \in {j \in 1..Len(children) : children[j]}}
                             ELSE {}]

\* ContainsKeyword.__call__: pass_(annotation) if annotation > 0, else fail(...)
ContainsKeyword(subschema, json) ==
    LET annotation == Cardinality({i \in 1..Len(json.items) :
                                    JSONSchema_call(subschema, json.items[i]).valid})
    IN IF annotation > 0 THEN EvaluationNode(TRUE, TRUE, annotation)
       ELSE EvaluationNode(FALSE, FALSE, 0)

\* MaxContainsKeyword.__call__ with the sibling node contains: the comparison
\* `contains.annotation <= self.json` raises TypeError for an annotation of None
MaxContainsKeyword(maxContains, contains) ==
    IF ~contains.annotated THEN [EvaluationNode(FALSE, FALSE, 0) EXCEPT !.err = "TypeError"]
    ELSE EvaluationNode(contains.annotation <= maxContains, FALSE, 0)

\* MinContainsKeyword.__call__ with the sibling nodes contains and maxContains (has
\* tells whether there is one): the node, and contains as the keyword leaves it
MinContainsKeyword(minContains, contains, has, max_contains) ==
    IF ~contains.annotated
    THEN [node |-> [EvaluationNode(FALSE, FALSE, 0) EXCEPT !.err = "TypeError"],
          contains |-> contains]
    ELSE [node |-> EvaluationNode(contains.annotation >= minContains, FALSE, 0),
          contains |-> IF /\ contains.annotation >= minContains /\ ~contains.valid
                          /\ (~has \/ max_contains.valid)
                       THEN [contains EXCEPT !.valid = TRUE]
                       ELSE contains]

\* self.json(node) and node.descend(json, subschema): the node of the subschema's
\* evaluation, with the property names annotated as evaluated under it if it is valid
descend(subschema, json) ==
    [EvaluationNode(JSONSchema_call(subschema, json).valid, FALSE, 0)
        EXCEPT !.children = <<JSONSchema_call(subschema, json).valid>>,
               !.err = JSONSchema_call(subschema, json).err,
               !.names = IF JSONSchema_call(subschema, json).valid
                         THEN JSONSchema_call(subschema, json).names ELSE {}]

\* AllOfKeyword.__call__: fails at the first invalid subschema
AllOfKeyword(subschemas, json) ==
    IF \A i \in 1..Len(subschemas) : descend(subschemas[i], json).valid
    THEN [EvaluationNode(TRUE, FALSE, 0)
            EXCEPT !.children = [i \in 1..Len(subschemas) |-> TRUE],
                   !.names = UNION {descend(subschemas[i], json).names :
                                        i \in 1..Len(subschemas)}]
    ELSE EvaluationNode(FALSE, FALSE, 0)

\* IfKeyword.__call__, had it left the node asserting
IfKeyword_asserting(subschema, json) == descend(subschema, json)

\* IfKeyword.__call__: self.json(node); node.assert_ = False
IfKeyword(subschema, json) == [descend(subschema, json) EXCEPT !.assert_ = FALSE]

\* ThenKeyword.__call__ with the evaluated siblings: the subschema is evaluated into
\* the node if there is a sibling "if" and it is valid
ThenKeyword(subschema, siblings, json) ==
    IF "if" \in DOMAIN siblings /\ siblings["if"].valid
    THEN descend(subschema, json) ELSE EvaluationNode(TRUE, FALSE, 0)

\* ElseKeyword.__call__
ElseKeyword(subschema, siblings, json) ==
    IF "if" \in DOMAIN siblings /\ ~siblings["if"].valid
    THEN descend(subschema, json) ELSE EvaluationNode(TRUE, FALSE, 0)

\* PropertiesKeyword.__call__: the instance's properties named in the keyword, in the
\* order of the instance; fails at the first invalid one, else annotates the names
PropertiesKeyword(properties, json) ==
    LET named == {i \in 1..Len(json.keys) : json.keys[i] \in DOMAIN properties}
        bad == {i \in named : ~descend(properties[json.keys[i]], json.items[i]).valid}
    IN IF bad = {}
       THEN [EvaluationNode(TRUE, FALSE, 0) EXCEPT !.names = {json.keys[i] : i \in named},
                                                     !.applied = {json.keys[i] : i \in named}]
       ELSE [EvaluationNode(FALSE, FALSE, 0)
                EXCEPT !.applied = {json.keys[i] : i \in {j \in named :
                                        \A k \in bad : j <= k}}]

\* UnevaluatedPropertiesKeyword.__call__, had it read the annotations of the sibling
\* "properties" only
UnevaluatedPropertiesKeyword_siblings(subschema, siblings, json) ==
    LET evaluated_names == IF "properties" \in DOMAIN siblings
                           THEN siblings["properties"].names ELSE {}
        rest == {i \in 1..Len(json.keys) : json.keys[i] \notin evaluated_names}
        bad == {i \in rest : ~descend(subschema, json.items[i]).valid}
    IN IF bad = {}
       THEN [EvaluationNode(TRUE, FALSE, 0) EXCEPT !.names = {json.keys[i] : i \in rest},
                                                     !.applied = {json.keys[i] : i \in rest}]
       ELSE [EvaluationNode(FALSE, FALSE, 0)
                EXCEPT !.applied = {json.keys[i] : i \in {j \in rest :
                                        \A k \in bad : j <= k}}]

\* UnevaluatedPropertiesKeyword.__call__ with the nodes evaluated so far under the
\* parent: node.parent.annotations(...) gives the names annotated under them
UnevaluatedPropertiesKeyword(subschema, siblings, json) ==
    LET evaluated_names == UNION {siblings[k].names : k \in DOMAIN siblings}
        rest == {i \in 1..Len(json.keys) : json.keys[i] \notin evaluated_names}
        bad == {i \in rest : ~descend(subschema, json.items[i]).valid}
    IN IF bad = {}
       THEN [EvaluationNode(TRUE, FALSE, 0) EXCEPT !.names = {json.keys[i] : i \in rest},
                                                     !.applied = {json.keys[i] : i \in rest}]
       ELSE [EvaluationNode(FALSE, FALSE, 0)
                EXCEPT !.applied = {json.keys[i] : i \in {j \in rest :
                                        \A k \in bad : j <= k}}]

\* The keyword classes in the order of their declaration; "ref" and "recursiveRef"
\* stand for "$ref" and "$recursiveRef"
KeywordClasses ==
    <<"ref", "recursiveRef", "allOf", "anyOf", "oneOf", "not", "if", "then", "else",
      "dependentSchemas", "items", "additionalItems", "unevaluatedItems", "contains",
      "properties", "patternProperties", "additionalProperties", "unevaluatedProperties",
      "propertyNames", "type", "minimum", "maxContains", "minContains",
      "contentMediaType", "contentSchema">>

\* __depends__, had "if" been declared to depend on "else"
depends_cyclic(kw) ==
    CASE kw = "if" -> {"else"}
      [] kw \in {"then", "else"} -> {"if"}
      [] OTHER -> {}

\* The __depends__ of the keyword class of kw
depends(kw) ==
    CASE kw \in {"then", "else"} -> {"if"}
      [] kw = "additionalItems" -> {"items"}
      [] kw = "unevaluatedItems" ->
            {"items", "additionalItems", "if", "then", "else", "allOf", "anyOf", "oneOf",
             "not"}
      [] kw = "additionalProperties" -> {"properties", "patternProperties"}
      [] kw = "unevaluatedProperties" ->
            {"properties", "patternProperties", "additionalProperties", "if", "then",
             "else", "dependentSchemas", "allOf", "anyOf", "oneOf", "not"}
      [] kw = "maxContains" -> {"contains"}
      [] kw = "minContains" -> {"contains", "maxContains"}
      [] kw = "contentSchema" -> {"contentMediaType"}
      [] OTHER -> {}

\* The order in which the keywords kws of one schema object are evaluated: repeatedly
\* the first keyword, in declaration order, none of whose dependencies is still to
\* be evaluated; a cycle of dependencies leaves the keywords on it unevaluated
RECURSIVE resolve_dependencies(_)
resolve_dependencies(kws) ==
    LET ready == {i \in 1..Len(KeywordClasses) :
                    /\ KeywordClasses[i] \in kws
                    /\ depends(KeywordClasses[i]) \cap kws = {}}
    IN IF ready = {} THEN <<>>
       ELSE LET first == CHOOSE i \in ready : \A j \in ready : i <= j
            IN <<KeywordClasses[first]>>
                    \o resolve_dependencies(kws \ {KeywordClasses[first]})

\* The keywords todo of the schema, called in turn for the instance json: a keyword
\* that does not apply to the type of the instance is not called and has no node
RECURSIVE Keywords_call(_, _, _, _)
Keywords_call(schema, json, todo, siblings) ==
    IF todo = <<>> THEN siblings
    ELSE LET kw == Head(todo)
             number == json.py \in {"int", "float"}
             array == json.py = "list"
             object == json.py = "dict"
         IN Keywords_call(schema, json, Tail(todo),
              CASE kw = "type" -> (kw :> TypeKeyword(schema.type, json)) @@ siblings
                [] kw = "minimum" /\ number ->
                      (kw :> MinimumKeyword(schema.minimum, json)) @@ siblings
                [] kw = "ref" -> (kw :> descend(schema.ref, json)) @@ siblings
                [] kw = "allOf" -> (kw :> AllOfKeyword(schema.allOf, json)) @@ siblings
                [] kw = "oneOf" -> (kw :> OneOfKeyword(schema.oneOf, json)) @@ siblings
                [] kw = "if" -> (kw :> IfKeyword(schema["if"], json)) @@ siblings
                [] kw = "then" ->
                      (kw :> ThenKeyword(schema["then"], siblings, json)) @@ siblings
                [] kw = "else" ->
                      (kw :> ElseKeyword(schema["else"], siblings, json)) @@ siblings
                [] kw = "properties" /\ object ->
                      (kw :> PropertiesKeyword(schema.properties, json)) @@ siblings
                [] kw = "unevaluatedProperties" /\ object ->
                      (kw :> UnevaluatedPropertiesKeyword(schema.unevaluatedProperties,
                                                          siblings, json)) @@ siblings
                [] kw = "contains" /\ array ->
                      (kw :> ContainsKeyword(schema.contains, json)) @@ siblings
                [] kw = "maxContains" /\ array /\ "contains" \in DOMAIN siblings ->
                      (kw :> MaxContainsKeyword(schema.maxContains, siblings["contains"]))
                        @@ siblings
                [] kw = "minContains" /\ array /\ "contains" \in DOMAIN siblings ->
                      ("minContains" :>
                            MinContainsKeyword(schema.minContains, siblings["contains"],
                                "maxContains" \in DOMAIN siblings,
                                IF "maxContains" \in DOMAIN siblings
                                THEN siblings["maxContains"]
                                ELSE siblings["contains"]).node)
                        @@ ("contains" :>
                            MinContainsKeyword(schema.minContains, siblings["contains"],
                                "maxContains" \in DOMAIN siblings,
                                IF "maxContains" \in DOMAIN siblings
                                THEN siblings["maxContains"]
                                ELSE siblings["contains"]).contains)
                        @@ siblings
                [] OTHER -> siblings)

\* The verdict of the keyword nodes of one schema object: valid iff every asserting
\* node is valid and nothing was raised; names are those annotated under valid nodes
Verdict(siblings) ==
    [valid |-> \A k \in DOMAIN siblings :
                    siblings[k].err = "none" /\ (siblings[k].assert_ => siblings[k].valid),
     err |-> IF \E k \in DOMAIN siblings : siblings[k].err # "none"
             THEN "TypeError" ELSE "none",
     names |-> UNION {IF siblings[k].valid THEN siblings[k].names ELSE {} :
                        k \in DOMAIN siblings},
     nodes |-> siblings]

\* schema(node): a boolean schema gives its value; else the keywords are called in
\* the order of their dependencies
JSONSchema_call(schema, json) ==
    IF "bool" \in DOMAIN schema
    THEN [Verdict(<<>>) EXCEPT !.valid = schema.bool]
    ELSE Verdict(Keywords_call(schema, json, resolve_dependencies(DOMAIN schema), <<>>))

\* The schemas 1, 2, 3 of the "$recursiveRef" inputs; 0 in a scope path is a scope
\* whose schema is not a JSONSchema.  schema.get("$recursiveAnchor") is true of 1, 3.
recursiveAnchor(schema) == schema \in {1, 3}

\* RecursiveRefKeyword_2019_09.evaluate: the schema evaluated, for refschema the
\* schema at the base URI and scope_path the schemas of the scopes from scope.root down to
\* the parent of the current scope
RecursiveRefKeyword_2019_09(refschema, scope_path) ==
    IF recursiveAnchor(refschema)
    THEN LET stops == {i \in 1..Len(scope_path) : /\ scope_path[i] # 0
                                            /\ \/ scope_path[i] = refschema
                                               \/ recursiveAnchor(scope_path[i])}
         IN IF stops = {} THEN refschema
            ELSE scope_path[CHOOSE i \in stops : \A j \in stops : i <= j]
    ELSE refschema

\* RecursiveRefKeyword.__call__ (keywords.py): the lookup of "$recursiveAnchor" is
\* commented out, the schema at the base URI is evaluated
RecursiveRefKeyword(refschema, scope_path) == refschema

-----------------------------------------------------------------------------
(* Inputs *)

CacheIds == {"default", "test"}
AbsBases == {1, 2}
Frags == {NoFrag, PtrFrag(<<>>), PtrFrag(<<"foo">>), NameFrag("a")}
AbsURIs == {MkURI(b, f) : b \in AbsBases, f \in Frags}
RelURIs == {MkURI(0, NoFrag), MkURI(0, NameFrag("a"))}
\* The uri argument of the constructor: none, every fragment form, and ''
ConstructURIs == {None, MkURI(0, NoFrag), MkURI(1, NoFrag), MkURI(1, PtrFrag(<<>>)),
                  MkURI(1, PtrFrag(<<"foo">>)), MkURI(2, NameFrag("a"))}
\* The values assigned to uri: none, a relative reference, every fragment form
AssignedURIs == {None, MkURI(0, NameFrag("a")), MkURI(1, NoFrag),
                 MkURI(1, PtrFrag(<<"foo">>)), MkURI(1, NameFrag("a")),
                 MkURI(2, NoFrag), MkURI(2, PtrFrag(<<>>))}
Values == {StringValue, ObjectValue("foo", ArrayValue(<<StringValue>>))}
Indexes == {-1, 0, 2}

-----------------------------------------------------------------------------
(* The operations, one action each *)

Op(name, n, c, u, w, val, loaded) ==
    [op |-> name, n |-> n, c |-> c, u |-> u, err |-> w.err, val |-> val,
     loaded |-> loaded, log |-> w.log]

\* One operation is done: the state becomes w and `last` tells what was called
Step(w, op) ==
    /\ steps < MaxSteps
    /\ Commit(w)
    /\ steps' = steps + 1
    /\ last' = op
    /\ registered' = registered \cup {<<e[2], e[3], e[4]>> : e \in {x \in w.log : x[1] = "add"}}
    /\ UNCHANGED <<auto_resolve_references, uri_sources, cin, cout>>

Done(w, name, n, c, u, val) == Step(w, Op(name, n, c, u, w, val, FALSE))

Constructed(w, c, u) ==
    Done(w, "JSONResource", IF w.err = "none" THEN Len(parent) + 1 ELSE 0, c, u, 0)

\* r = JSONResource(v, cacheid=c, uri=u, additional_uris=additional, initial_base_uri=ib)
Construct(v, c, u, additional, ib) ==
    /\ Len(parent) + ValueSize(v) <= MaxNodes
    /\ Constructed(JSONResource(World, v, 0, "", c, u, additional, ib, TRUE), c, u)
    /\ UNCHANGED scopes

\* n.uri = u
SetURI(n, u) ==
    /\ Done(set_uri(World, n, u, None), "uri", n, cacheid[n], u, 0)
    /\ UNCHANGED scopes

\* n.additional_uris = uris
SetAdditionalURIs(n, uris) ==
    /\ Done(set_additional_uris(World, n, uris), "additional_uris", n, cacheid[n], None, 0)
    /\ UNCHANGED scopes

\* a.insert(index, "...")
Insert(a, index) ==
    /\ type[a] = "array"
    /\ Len(parent) + 1 <= MaxNodes
    /\ Done(insert(World, a, index, StringValue), "insert", a, cacheid[a], None,
            Len(parent) + 1)
    /\ UNCHANGED scopes

\* del a[index]
DelItem(a, index) ==
    /\ type[a] = "array"
    /\ Done(delitem(World, a, index), "delitem", a, cacheid[a], None, 0)
    /\ UNCHANGED scopes

PointerURIRead(r, n) == Done(r.w, "pointer_uri", n, cacheid[n], r.val, 0)

\* reading n.pointer_uri
GetPointerURI(n) ==
    /\ PointerURIRead(pointer_uri_get(World, n), n)
    /\ UNCHANGED scopes

\* catalog.add_resource(u, x, cacheid=c)
AddResource(u, x, c) ==
    /\ Done(add_resource(World, u, x, c), "add_resource", x, c, u, 0)
    /\ UNCHANGED scopes

\* catalog.del_resource(u, cacheid=c)
DelResource(u, c) ==
    /\ Done(del_resource(World, u, c), "del_resource", 0, c, u, 0)
    /\ UNCHANGED scopes

ResourceGot(r, u, c) ==
    Step([r.w EXCEPT !.err = r.err],
         Op("get_resource", 0, c, u, [r.w EXCEPT !.err = r.err], r.val, r.loaded))

\* catalog.get_resource(u, cacheid=c)
GetResource(u, c) ==
    /\ \/ Cached(World, u, c)
       \/ u.frag.kind # "none" /\ Cached(World, copy(u, NoFrag), c)
       \/ load_json(copy(u, NoFrag)).err # "none"
       \/ Len(parent) + ValueSize(SourceDocument(u.base)) <= MaxNodes
    /\ ResourceGot(get_resource(World, u, c, auto_resolve_references), u, c)
    /\ UNCHANGED scopes

\* entering `with catalog.cache(c)`
CacheEnter(c) ==
    /\ Len(scopes) < MaxScopes
    /\ IF c \in DOMAIN schema_cache
       THEN /\ Done([World EXCEPT !.err = "CatalogError"], "cache", 0, c, None, 0)
            /\ UNCHANGED scopes
       ELSE /\ Done(World, "cache", 0, c, None, 0)
            /\ scopes' = Append(scopes, c)

\* leaving the innermost `with catalog.cache(c)`, normally or by an exception
CacheExit(exception) ==
    /\ scopes # <<>>
    /\ Done(cache_exit(World, scopes[Len(scopes)], exception),
            IF exception THEN "cache_exit_exception" ELSE "cache_exit",
            0, scopes[Len(scopes)], None, 0)
    /\ scopes' = SubSeq(scopes, 1, Len(scopes) - 1)

Classified(r) ==
    /\ cout' = [err |-> r.err, register_uri |-> r.register_uri,
                property_uri |-> r.property_uri, base_uri |-> r.base_uri,
                additional_uris |-> r.additional_uris]
    /\ Commit(r.w)

\* ResourceURIs.uris_for(cin.n, cin.u, cin.ib, DEFAULT_URI_FACTORY), called once
Classify ==
    /\ cout.err = "pending"
    /\ Classified(uris_for(World, cin.n, cin.u, cin.ib))
    /\ UNCHANGED <<auto_resolve_references, uri_sources, scopes, steps, last, registered, cin>>

-----------------------------------------------------------------------------
(* Specifications *)

Pending == [err |-> "pending", register_uri |-> FALSE, property_uri |-> None,
            base_uri |-> None, additional_uris |-> {}]

EmptyWorld ==
    [parent |-> <<>>, key |-> <<>>, type |-> <<>>, data |-> <<>>, path |-> <<>>,
     value |-> <<>>, cacheid |-> <<>>, uri |-> <<>>, base_uri |-> <<>>, additional_uris |-> <<>>,
     pointer_uri |-> <<>>, children_in_resource |-> <<>>, references_resolved |-> <<>>,
     schema_cache |-> [c \in {} |-> EmptyCache], uuid |-> 0, err |-> "none", log |-> {}]

InitWorld(w) ==
    /\ parent = w.parent /\ key = w.key /\ type = w.type /\ data = w.data
    /\ path = w.path /\ cached_value = w.value /\ cacheid = w.cacheid /\ uri = w.uri /\ base_uri = w.base_uri
    /\ additional_uris = w.additional_uris /\ pointer_uri = w.pointer_uri
    /\ children_in_resource = w.children_in_resource
    /\ references_resolved = w.references_resolved
    /\ schema_cache = w.schema_cache /\ uuid = w.uuid

NoOp == [op |-> "none", n |-> 0, c |-> "default", u |-> None, err |-> "none",
         val |-> 0, loaded |-> FALSE, log |-> {}]

\* A new catalog (resolve_references=True), no resource constructed yet
Init ==
    /\ InitWorld(EmptyWorld)
    /\ auto_resolve_references = TRUE
    /\ uri_sources = <<>>
    /\ scopes = <<>>
    /\ steps = 0
    /\ last = NoOp
    /\ registered = {}
    /\ cin = [n |-> 0, u |-> None, ib |-> None]
    /\ cout = Pending

\* The resource layer: documents in the default cache, their URIs and arrays
Next ==
    \/ \E v \in Values, u \in ConstructURIs : Construct(v, "default", u, {}, None)
    \/ \E v \in Values, u \in {None, MkURI(1, NoFrag)} :
            Construct(v, "default", u, {MkURI(2, PtrFrag(<<>>)), MkURI(0, NameFrag("a"))}, None)
    \/ \E v \in Values, ib \in {None, MkURI(1, NoFrag), MkURI(0, NameFrag("a"))} :
            Construct(v, "default", MkURI(0, NameFrag("a")), {}, ib)
    \/ \E n \in 1..Len(parent),
          u \in AssignedURIs \cup {URN(k) : k \in 1..(IF uuid > 0 THEN 1 ELSE 0)} :
            SetURI(n, u)
    \/ \E n \in 1..Len(parent),
          uris \in {{}, {MkURI(1, NoFrag), MkURI(2, PtrFrag(<<>>))},
                    {MkURI(2, NameFrag("a")), MkURI(2, PtrFrag(<<"foo">>))}} :
            SetAdditionalURIs(n, uris)
    \/ \E a \in 1..Len(parent), i \in Indexes : Insert(a, i)
    \/ \E a \in 1..Len(parent), i \in Indexes : DelItem(a, i)
    \/ \E n \in 1..Len(parent) : GetPointerURI(n)

Spec == Init /\ [][Next]_vars

\* The catalog: explicit cache management, lookup and scoped caches
CatalogURIs == {MkURI(1, NoFrag), MkURI(2, NoFrag), MkURI(2, PtrFrag(<<"foo">>)),
                MkURI(2, PtrFrag(<<>>)), MkURI(1, NameFrag("a"))}

NextCatalog ==
    \/ \E v \in Values, c \in CacheIds, u \in {None, MkURI(1, NoFrag)} :
            Construct(v, c, u, {}, None)
    \/ \E n \in 1..Len(parent), u \in {MkURI(1, NoFrag), MkURI(2, NoFrag)} : SetURI(n, u)
    \/ \E u \in CatalogURIs, x \in 1..Len(parent), c \in CacheIds : AddResource(u, x, c)
    \/ \E u \in CatalogURIs, c \in CacheIds : DelResource(u, c)
    \/ \E u \in CatalogURIs, c \in CacheIds : GetResource(u, c)
    \/ \E c \in CacheIds : CacheEnter(c)
    \/ \E e \in BOOLEAN : CacheExit(e)

SpecCatalog == Init /\ [][NextCatalog]_vars

\* The state in which the document was just constructed
Documented(w) ==
    /\ InitWorld(w)
    /\ registered = {<<e[2], e[3], e[4]>> : e \in {x \in w.log : x[1] = "add"}}

\* uris_for on the nodes of the document {"foo": ["bar"]}, one call per behaviour
InitClassify ==
    /\ \E ru \in {None, MkURI(1, NoFrag), MkURI(2, PtrFrag(<<"foo">>)), MkURI(1, NameFrag("a"))} :
          Documented(JSONResource(EmptyWorld, ObjectValue("foo", ArrayValue(<<StringValue>>)),
                                  0, "", "default", ru, {}, None, TRUE))
    /\ auto_resolve_references = TRUE
    /\ uri_sources = <<>>
    /\ scopes = <<>>
    /\ steps = 0
    /\ last = NoOp
    /\ cin \in [n : 1..3, u : AbsURIs \cup RelURIs \cup {None}, ib : {None, MkURI(1, NoFrag)}]
    /\ cout = Pending

NextClassify == Classify

SpecClassify == InitClassify /\ [][NextClassify]_vars

\* Schemas with references in two caches of a catalog that resolves references
\* eagerly or was made with resolve_references=False
SchemaValue(u) == IF u = None THEN StringValue ELSE SourceDocument(u.base)
RequestURIs == {MkURI(3, NoFrag), MkURI(4, NoFrag), MkURI(7, NoFrag),
                MkURI(3, PtrFrag(<<"$ref">>)), MkURI(3, PtrFrag(<<"not">>)),
                MkURI(6, PtrFrag(<<"not">>))}

\* JSONSchema(SchemaValue(u), cacheid=c, uri=u, resolve_references=resolving)
ConstructSchema(c, u, resolving) ==
    /\ Len(JSONSchema(World, SchemaValue(u), c, u, resolving,
                      auto_resolve_references).parent) <= MaxNodes
    /\ Constructed(JSONSchema(World, SchemaValue(u), c, u, resolving,
                              auto_resolve_references), c, u)
    /\ UNCHANGED scopes

\* catalog.get_schema(u, cacheid=c)
GetSchema(u, c) ==
    /\ Len(get_schema(World, u, c, auto_resolve_references).w.parent) <= MaxNodes
    /\ ResourceGot(get_schema(World, u, c, auto_resolve_references), u, c)
    /\ UNCHANGED scopes

\* n.resolve_references()
ResolveNode(n) ==
    /\ Len(resolve_references(World, n, auto_resolve_references).parent) <= MaxNodes
    /\ Done(resolve_references(World, n, auto_resolve_references), "resolve_references",
            n, cacheid[n], None, 0)
    /\ UNCHANGED scopes

\* catalog.resolve_references(cacheid=c)
ResolveReferences(c) ==
    /\ \E w \in Catalog_resolve_references(World, c, auto_resolve_references) :
            /\ Len(w.parent) <= MaxNodes
            /\ Done(w, "Catalog.resolve_references", 0, c, None, 0)
    /\ UNCHANGED scopes

\* n.replace('', "...")
Replace(n) ==
    /\ Done(replace(World, n, StringValue), "replace", n, cacheid[n], None, 0)
    /\ UNCHANGED scopes

\* n.evaluate(instance) for a document root n; `loaded` tells that the evaluation
\* found the references of n unresolved
Evaluate(n) ==
    /\ parent[n] = 0
    /\ Len(JSONSchema_evaluate(World, n, auto_resolve_references, {}).w.parent) <= MaxNodes
    /\ Step(JSONSchema_evaluate(World, n, auto_resolve_references, {}).w,
            [Op("evaluate", n, cacheid[n], None,
                JSONSchema_evaluate(World, n, auto_resolve_references, {}).w,
                JSONSchema_evaluate(World, n, auto_resolve_references, {}).val,
                ~references_resolved[n])
             EXCEPT !.err = JSONSchema_evaluate(World, n, auto_resolve_references, {}).err])
    /\ UNCHANGED scopes

InitResolve ==
    /\ InitWorld(EmptyWorld)
    /\ auto_resolve_references \in BOOLEAN
    /\ uri_sources = <<>>
    /\ scopes = <<>>
    /\ steps = 0
    /\ last = NoOp
    /\ registered = {}
    /\ cin = [n |-> 0, u |-> None, ib |-> None]
    /\ cout = Pending

NextResolve ==
    \/ \E c \in CacheIds, u \in {None, MkURI(3, NoFrag)} : ConstructSchema(c, u, FALSE)
    \/ ConstructSchema("default", MkURI(5, NoFrag), FALSE)
    \/ ConstructSchema("default", MkURI(3, NoFrag), TRUE)
    \/ \E u \in {MkURI(3, NoFrag), MkURI(6, PtrFrag(<<"not">>))}, c \in CacheIds :
            GetSchema(u, c)
    \/ \E u \in {MkURI(3, PtrFrag(<<"$ref">>)), MkURI(3, PtrFrag(<<"not">>)),
                  MkURI(7, NoFrag)} :
            GetSchema(u, "default")
    \/ \E n \in 1..Len(parent) : ResolveNode(n)
    \/ \E c \in CacheIds : ResolveReferences(c)
    \/ \E x \in 1..Len(parent), c \in CacheIds : AddResource(MkURI(7, NoFrag), x, c)
    \/ DelResource(MkURI(7, NoFrag), "test")
    \/ \E n \in 1..Len(parent) : Replace(n)
    \/ \E n \in 1..Len(parent) : Evaluate(n)

SpecResolve == InitResolve /\ [][NextResolve]_vars

\* catalog.create_metaschema(u) and catalog.get_metaschema(u)
CreateMetaschema(u) ==
    /\ \E r \in create_metaschema(World, u, auto_resolve_references) :
            /\ Len(r.w.parent) <= MaxNodes
            /\ Step([r.w EXCEPT !.err = r.err],
                    Op("create_metaschema", 0, "__meta__", u, [r.w EXCEPT !.err = r.err],
                       r.val, FALSE))
    /\ UNCHANGED scopes

GetMetaschema(u) ==
    /\ \E r \in get_metaschema(World, u, auto_resolve_references) :
            /\ Len(r.w.parent) <= MaxNodes
            /\ Step([r.w EXCEPT !.err = r.err],
                    Op("get_metaschema", 0, "__meta__", u, [r.w EXCEPT !.err = r.err],
                       r.val, FALSE))
    /\ UNCHANGED scopes

\* Metaschemas created and fetched by URI; document 6 is invalid against itself,
\* no source serves 7
NextMeta ==
    \/ \E u \in {MkURI(2, NoFrag), MkURI(3, NoFrag), MkURI(6, NoFrag), MkURI(7, NoFrag)} :
            \/ CreateMetaschema(u)
            \/ GetMetaschema(u)
    \/ \E u \in {MkURI(2, NoFrag), MkURI(6, NoFrag)} : DelResource(u, "__meta__")

SpecMeta == InitResolve /\ [][NextMeta]_vars

\* root.add(path, obj), root.remove(path) and root.replace(path, obj) on a document
\* root; obj is a string or, as [node |-> x], an existing node
Patch(n, op, ptr, obj) ==
    /\ parent[n] = 0
    /\ Len((CASE op = "add" -> add(World, n, ptr, obj)
              [] op = "remove" -> remove(World, n, ptr)
              [] OTHER -> replace_at(World, n, ptr, obj)).parent) <= MaxNodes
    /\ Done(CASE op = "add" -> add(World, n, ptr, obj)
               [] op = "remove" -> remove(World, n, ptr)
               [] OTHER -> replace_at(World, n, ptr, obj),
            op, n, cacheid[n], ptr, IF "node" \in DOMAIN obj THEN obj.node ELSE 0)
    /\ UNCHANGED scopes

\* Patches of an array and of an object: paths to items and members that exist, to
\* the end of the array, past it, below a string and below a missing member or item
NextPatch ==
    \/ \E v \in {ArrayValue(<<StringValue>>), ObjectValue("foo", StringValue)} :
            Construct(v, "default", None, {}, None)
    \/ \E n \in 1..Len(parent), op \in {"add", "remove", "replace"},
          ptr \in {<<"0">>, <<"1">>, <<"-">>, <<"3">>, <<"foo">>, <<"0", "0">>},
          obj \in {StringValue} \cup {[node |-> x] : x \in 1..Len(parent)} :
            Patch(n, op, ptr, obj)

SpecPatch == Init /\ [][NextPatch]_vars

\* n.value
ReadValue(n) ==
    /\ Done(JSON_value(World, n).w, "value", n, cacheid[n], None, 0)
    /\ UNCHANGED scopes

\* Documents that are read and changed: items set, inserted and deleted, nodes
\* added, removed and replaced
NextValue ==
    \/ \E v \in Values \cup {ArrayValue(<<StringValue>>)} :
            Construct(v, "default", None, {}, None)
    \/ \E n \in 1..Len(parent) : ReadValue(n)
    \/ \E a \in 1..Len(parent), i \in Indexes : Insert(a, i)
    \/ \E a \in 1..Len(parent), i \in Indexes : DelItem(a, i)
    \/ \E n \in 1..Len(parent), op \in {"add", "remove", "replace"},
          ptr \in {<<"0">>, <<"-">>, <<"foo">>, <<"foo", "0">>},
          obj \in {StringValue} \cup {[node |-> x] : x \in 1..Len(parent)} :
            Patch(n, op, ptr, obj)
    \/ \E n \in 1..Len(parent) : Replace(n)

SpecValue == Init /\ [][NextValue]_vars

\* JSON(cin.a) == JSON(cin.b) and the other comparisons among cin.a, cin.b, cin.c
Compare ==
    /\ cout.op = "pending"
    /\ cout' = [op |-> "eq", aa |-> eq(cin.a, cin.a), ab |-> eq(cin.a, cin.b),
                ba |-> eq(cin.b, cin.a), bc |-> eq(cin.b, cin.c),
                ac |-> eq(cin.a, cin.c)]
    /\ Commit(World)
    /\ UNCHANGED <<auto_resolve_references, uri_sources, scopes, steps, last, registered, cin>>

\* JSONSchema(cin.s).evaluate(JSON(cin.a)), called once
Call ==
    /\ cout.op = "pending"
    /\ cout' = [op |-> "call", valid |-> JSONSchema_call(cin.s, cin.a).valid,
                err |-> JSONSchema_call(cin.s, cin.a).err,
                nodes |-> JSONSchema_call(cin.s, cin.a).nodes,
                oneOf |-> IF "oneOf" \in DOMAIN JSONSchema_call(cin.s, cin.a).nodes
                          THEN JSONSchema_call(cin.s, cin.a).nodes["oneOf"]
                          ELSE EvaluationNode(TRUE, FALSE, 0),
                contains |-> IF "contains" \in DOMAIN JSONSchema_call(cin.s, cin.a).nodes
                             THEN JSONSchema_call(cin.s, cin.a).nodes["contains"]
                             ELSE EvaluationNode(TRUE, FALSE, 0)]
    /\ Commit(World)
    /\ UNCHANGED <<auto_resolve_references, uri_sources, scopes, steps, last, registered, cin>>

\* "$recursiveRef": "#" reached through the scopes cin.scope, the schema at the base
\* URI being cin.target, by the keyword class of vocabulary/legacy.py or by the one
\* of keywords.py
RecursiveRef(legacy) ==
    /\ cout.op = "pending"
    /\ cin.scope # <<>>
    /\ cout' = [op |-> "recursiveRef",
                refschema |-> IF legacy
                              THEN RecursiveRefKeyword_2019_09(cin.target, cin.scope)
                              ELSE RecursiveRefKeyword(cin.target, cin.scope)]
    /\ Commit(World)
    /\ UNCHANGED <<auto_resolve_references, uri_sources, scopes, steps, last, registered, cin>>

\* Three instances to compare, or one instance and a schema to evaluate it against,
\* or the scopes above a "$recursiveRef" and the schema at its base URI
InitKeywords ==
    /\ Documented(EmptyWorld)
    /\ auto_resolve_references = TRUE
    /\ uri_sources = <<>>
    /\ scopes = <<>>
    /\ steps = 0
    /\ last = NoOp
    /\ cout = [op |-> "pending"]
    /\ LET Value(py, num, str, items, keys) ==
               [py |-> py, num |-> num, str |-> str, items |-> items, keys |-> keys]
           PyInt(x) == Value("int", 2 * x, "", <<>>, <<>>)
           PyFloat(h) == Value("float", h, "", <<>>, <<>>)
           Bool(b) == Value("bool", IF b THEN 2 ELSE 0, "", <<>>, <<>>)
           Str(x) == Value("str", 0, x, <<>>, <<>>)
           List(x) == Value("list", 0, "", x, <<>>)
           Dict(k, x) == Value("dict", 0, "", x, k)
           Instances ==
               {Value("NoneType", 0, "", <<>>, <<>>), Bool(TRUE), Bool(FALSE), PyInt(1),
                PyFloat(2), PyInt(5), PyInt(0 - 3), PyFloat(3), Str("a"), List(<<>>),
                List(<<PyInt(1)>>), List(<<PyFloat(2)>>), List(<<Bool(TRUE)>>),
                List(<<Str("a"), PyInt(1)>>), List(<<PyInt(1), PyFloat(3), PyInt(5)>>),
                List(<<List(<<PyInt(1)>>)>>),
                Dict(<<"a", "b">>, <<PyInt(1), Str("a")>>),
                Dict(<<"b", "a">>, <<Str("a"), PyFloat(2)>>),
                Dict(<<"a">>, <<PyInt(1)>>)}
           Subschemas == {[type |-> "integer"], [type |-> "string"], [bool |-> TRUE]}
           Unevaluated == {[type |-> "integer"], [bool |-> FALSE]}
           PropA == [a |-> [type |-> "integer"]]
           PropB == [b |-> [type |-> "string"]]
           Schemas ==
               {[oneOf |-> <<[type |-> "integer"], [minimum |-> 0]>>],
                [oneOf |-> <<[minimum |-> 0], [type |-> "integer"], [type |-> "number"]>>],
                [oneOf |-> <<[type |-> "string"], [bool |-> FALSE]>>],
                [minContains |-> 0]}
               \cup {[contains |-> c] : c \in Subschemas}
               \cup {[contains |-> c, minContains |-> k] : c \in Subschemas, k \in 0..2}
               \cup {[contains |-> c, maxContains |-> k] : c \in Subschemas, k \in 0..1}
               \cup {[contains |-> c, minContains |-> k, maxContains |-> 1] :
                        c \in Subschemas, k \in 0..1}
               \cup {[if |-> i, then |-> t, else |-> [type |-> "string"]] :
                        i \in Subschemas, t \in {[minimum |-> 0], [bool |-> FALSE]}}
               \cup {[if |-> i, then |-> [minimum |-> 0]] : i \in Subschemas}
               \cup {[if |-> i, else |-> [bool |-> FALSE]] : i \in Subschemas}
               \cup {[unevaluatedProperties |-> u] : u \in Unevaluated}
               \cup {[properties |-> PropA, unevaluatedProperties |-> u] :
                        u \in Unevaluated}
               \cup {[allOf |-> <<[properties |-> p]>>, unevaluatedProperties |-> u] :
                        p \in {PropA, [a |-> [type |-> "string"]]}, u \in Unevaluated}
               \cup {[ref |-> [properties |-> PropB], unevaluatedProperties |-> u] :
                        u \in Unevaluated}
               \cup {[properties |-> PropA, ref |-> [properties |-> PropB],
                      unevaluatedProperties |-> u] : u \in Unevaluated}
               \cup {[if |-> [properties |-> PropA], then |-> [properties |-> PropB],
                      unevaluatedProperties |-> u] : u \in Unevaluated}
               \cup {[oneOf |-> <<[properties |-> PropA], [bool |-> FALSE]>>,
                      unevaluatedProperties |-> u] : u \in Unevaluated}
               \cup {[if |-> [type |-> "integer"]], [if |-> [bool |-> FALSE]],
                     [then |-> [bool |-> FALSE]], [else |-> [bool |-> FALSE]],
                     [then |-> [bool |-> FALSE], else |-> [bool |-> FALSE]]}
           Scopes == UNION {[1..n -> 0..3] : n \in 1..3}
       IN cin \in {[a |-> x, b |-> y, c |-> z, s |-> [bool |-> TRUE], scope |-> <<>>,
                    target |-> 0] : x \in Instances, y \in Instances, z \in Instances}
                 \cup {[a |-> x, b |-> x, c |-> x, s |-> t, scope |-> <<>>, target |-> 0] :
                        x \in Instances, t \in Schemas}
                 \cup {[a |-> PyInt(1), b |-> PyInt(1), c |-> PyInt(1),
                        s |-> [bool |-> TRUE], scope |-> p, target |-> t] :
                        p \in Scopes, t \in 1..3}

NextKeywords == Compare \/ Call \/ \E legacy \in BOOLEAN : RecursiveRef(legacy)

SpecKeywords == InitKeywords /\ [][NextKeywords]_vars

\* catalog.add_uri_source(base_uri, source), base being <<>> for None
AddURISource(base, source) ==
    /\ steps < MaxSteps
    /\ steps' = steps + 1
    /\ uri_sources' = add_uri_source(uri_sources, base, source).sources
    /\ last' = [NoOp EXCEPT !.op = "add_uri_source", !.u = base,
                            !.err = add_uri_source(uri_sources, base, source).err]
    /\ Commit(World)
    /\ UNCHANGED <<auto_resolve_references, scopes, registered, cin, cout>>

\* catalog.load_json(uri) with str(uri) = uristr
LoadJSON(uristr) ==
    /\ steps < MaxSteps
    /\ steps' = steps + 1
    /\ last' = [NoOp EXCEPT !.op = "load_json", !.u = uristr,
                            !.err = load_json_string(uri_sources, uristr).err,
                            !.log = load_json_string(uri_sources, uristr).calls]
    /\ Commit(World)
    /\ UNCHANGED <<auto_resolve_references, uri_sources, scopes, registered, cin, cout>>

\* The base URIs and URIs of tests/test_catalog.py
NextSources ==
    \/ \E source \in {"local", "dict"},
          base \in {<<>>, <<<<"http:", "//e", "/">>>>, <<<<"http:", "//e", "/", "foo", "/">>>>,
                        <<<<"//e", "/", "foo", "/">>>>, <<<<"http:", "//E", "/", "foo", "/">>>>,
                        <<<<"http:", "//e", "/", "foo", "/", "#">>>>,
                        <<<<"http:", "//e", "/", "foo", "/", "#bar">>>>,
                        <<<<"http:", "//e", "/", "foo">>>>} :
            AddURISource(base, source)
    \/ \E uristr \in {<<"http:", "//e", "/", "file">>, <<"http:", "//e", "/", "foo", "/", "file">>,
                        <<"http:", "//e", "/", "foo", "/", "baz">>,
                        <<"http:", "//n", "/", "file">>, <<"//e", "/", "foo", "/", "file">>,
                        <<"http:", "//E", "/", "foo", "/", "file">>,
                        <<"http:", "//e", "/", "foo", "/", "file", "#">>,
                        <<"http:", "//e", "/", "foo", "/", "file", "#bar">>} :
            LoadJSON(uristr)

SpecSources == Init /\ [][NextSources]_vars

-----------------------------------------------------------------------------
(* Two threads on one catalog: one calls add_resource or del_resource, the
   other get_resource.  cin holds the two calls and each thread's position,
   cout what the getter's first lookup saw and what the call returned.  A step
   is one operation on the dictionaries of Catalog._schema_cache, which the
   interpreter performs without interruption; the code takes no lock. *)

\* self._schema_cache.setdefault(cacheid, {}), the first statement of add_resource
setdefault(w, c) ==
    IF c \in DOMAIN w.schema_cache THEN w
    ELSE [w EXCEPT !.schema_cache =
            [d \in DOMAIN w.schema_cache \cup {c} |->
                IF d = c THEN EmptyCache ELSE w.schema_cache[d]]]

\* what self._schema_cache[c][u] gives: the node, 0 for KeyError
Binding(w, u, c) == IF Cached(w, u, c) THEN w.schema_cache[c][u] ELSE 0

\* The mutating thread: one statement of add_resource or del_resource
Mutate ==
    /\ cin.pcm # "done"
    /\ CASE cin.pcm = "setdefault" ->
                /\ Commit(setdefault(World, cin.c))
                /\ cin' = [cin EXCEPT !.pcm = "setitem"]
         [] cin.pcm = "setitem" ->
                /\ Commit(add_resource(World, cin.u, cin.x, cin.c))
                /\ cin' = [cin EXCEPT !.pcm = "done"]
         [] cin.pcm = "test" ->
                /\ Commit(World)
                /\ cin' = [cin EXCEPT !.pcm = IF cin.c \in DOMAIN schema_cache
                                              THEN "pop" ELSE "done"]
         [] cin.pcm = "pop" ->
                /\ Commit(del_resource(World, cin.u, cin.c))
                /\ cin' = [cin EXCEPT !.pcm = "done"]
    /\ UNCHANGED <<auto_resolve_references, uri_sources, scopes, steps, last, registered,
                   cout>>

\* The reading thread: self._schema_cache[cacheid][uri] at the top of get_resource
Lookup ==
    /\ cin.pcg \in {"cache", "item"}
    /\ Commit(World)
    /\ IF cin.pcg = "cache" /\ cin.gc \in DOMAIN schema_cache
       THEN /\ cin' = [cin EXCEPT !.pcg = "item"]
            /\ cout' = cout
       ELSE /\ cout' = [cout EXCEPT !.op = "looked", !.at = cin.pcm,
                                    !.seen = Binding(World, cin.v, cin.gc),
                                    !.val = Binding(World, cin.v, cin.gc)]
            /\ cin' = [cin EXCEPT !.pcg = IF Cached(World, cin.v, cin.gc)
                                          THEN "done" ELSE "load"]
    /\ UNCHANGED <<auto_resolve_references, uri_sources, scopes, steps, last, registered>>

\* The reading thread after a miss: load_json and the construction of the resource
Load ==
    /\ cin.pcg = "load"
    /\ IF load_json(cin.v).err # "none"
       THEN /\ Commit(World)
            /\ cin' = [cin EXCEPT !.pcg = "done"]
            /\ cout' = [cout EXCEPT !.err = "CatalogError"]
       ELSE /\ Commit([JSONResource(World, load_json(cin.v).doc, 0, "", cin.gc, cin.v, {},
                                    None, auto_resolve_references) EXCEPT !.err = "none"])
            /\ cin' = [cin EXCEPT !.pcg = "relookup", !.resource = Len(parent) + 1]
            /\ cout' = cout
    /\ UNCHANGED <<auto_resolve_references, uri_sources, scopes, steps, last, registered>>

\* The reading thread's second self._schema_cache[cacheid][uri], and the return
Relookup ==
    /\ cin.pcg = "relookup"
    /\ Commit(World)
    /\ cin' = [cin EXCEPT !.pcg = "done"]
    /\ cout' = [cout EXCEPT !.val = get_resource_loaded(World, cin.v, cin.gc,
                                                        cin.resource).val]
    /\ UNCHANGED <<auto_resolve_references, uri_sources, scopes, steps, last, registered>>

\* A catalog holding one or two resources, and the two calls about to be made
InitAtomic ==
    \E two \in BOOLEAN, c2 \in CacheIds, op \in {"add", "del"},
       u \in {MkURI(1, NoFrag), MkURI(3, NoFrag), MkURI(7, NoFrag)},
       v \in {MkURI(1, NoFrag), MkURI(3, NoFrag), MkURI(7, NoFrag)},
       x \in 1..2, c \in CacheIds, gc \in CacheIds :
        LET w1 == JSONResource(EmptyWorld, StringValue, 0, "", "default",
                               MkURI(1, NoFrag), {}, None, TRUE)
            w2 == IF two
                  THEN JSONResource(w1, StringValue, 0, "", c2, MkURI(7, NoFrag), {},
                                    None, TRUE)
                  ELSE w1
        IN /\ x <= Len(w2.parent)
           /\ (~two => c2 = "default")
           /\ InitWorld(w2)
           /\ auto_resolve_references = TRUE
           /\ uri_sources = <<>>
           /\ scopes = <<>>
           /\ steps = 0
           /\ last = NoOp
           /\ registered = {}
           /\ cin = [op |-> op, u |-> u, x |-> x, c |-> c, v |-> v, gc |-> gc,
                     pcm |-> IF op = "add" THEN "setdefault" ELSE "test",
                     pcg |-> "cache", resource |-> 0,
                     before |-> Binding(w2, v, gc)]
           /\ cout = [op |-> "pending", at |-> "none", seen |-> 0, val |-> 0,
                      err |-> "none"]

NextAtomic == Mutate \/ Lookup \/ Load \/ Relookup

SpecAtomic == InitAtomic /\ [][NextAtomic]_vars

-----------------------------------------------------------------------------
(* Catalog.resolve_references statement by statement: cin holds the position in
   the loops and the locals cache_keys and resolved; todo is what the for loop
   has yet to visit, passes counts the rounds of the while loop; cout.odd is
   the parity of the number of statements executed. *)

\* `while len(resolved) < len(cache.keys())`, had it been <=
while_condition_le(w, c, resolved) ==
    Cardinality(resolved) <= Cardinality(DOMAIN w.schema_cache[c])

\* `while len(resolved) < len(cache.keys())`
while_condition(w, c, resolved) ==
    Cardinality(resolved) < Cardinality(DOMAIN w.schema_cache[c])

\* cache = self._schema_cache[cacheid]; cache_keys = frozenset(cache.keys());
\* resolved = set()
LoopEnter ==
    /\ cin.pc = "start"
    /\ Commit(World)
    /\ cin' = IF cin.c \in DOMAIN schema_cache
              THEN [cin EXCEPT !.pc = "while", !.cache_keys = DOMAIN schema_cache[cin.c],
                               !.first = DOMAIN schema_cache[cin.c]]
              ELSE [cin EXCEPT !.pc = "raised"]
    /\ cout' = [cout EXCEPT !.odd = ~@]
    /\ UNCHANGED <<auto_resolve_references, uri_sources, scopes, steps, last, registered>>

\* The test of the while loop
LoopWhile ==
    /\ cin.pc = "while"
    /\ Commit(World)
    /\ cin' = IF while_condition(World, cin.c, cin.resolved)
              THEN [cin EXCEPT !.pc = "for", !.todo = cin.cache_keys, !.passes = @ + 1]
              ELSE [cin EXCEPT !.pc = "done"]
    /\ cout' = [cout EXCEPT !.odd = ~@]
    /\ UNCHANGED <<auto_resolve_references, uri_sources, scopes, steps, last, registered>>

\* One round of the for loop, the keys being visited in any order; after the last,
\* cache_keys = cache.keys() - resolved
LoopFor ==
    /\ cin.pc = "for"
    /\ IF cin.todo = {}
       THEN /\ Commit(World)
            /\ cin' = [cin EXCEPT !.pc = "while",
                                  !.cache_keys = DOMAIN schema_cache[cin.c] \ cin.resolved]
       ELSE \E schema_uri \in cin.todo :
            \E w \in {resolve_references(World, schema_cache[cin.c][schema_uri],
                                         auto_resolve_references)} :
               /\ Commit([w EXCEPT !.err = "none"])
               /\ cin' = IF w.err # "none" THEN [cin EXCEPT !.pc = "raised"]
                         ELSE [cin EXCEPT !.todo = @ \ {schema_uri},
                                          !.resolved = @ \cup {schema_uri}]
    /\ cout' = [cout EXCEPT !.odd = ~@]
    /\ UNCHANGED <<auto_resolve_references, uri_sources, scopes, steps, last, registered>>

\* Schemas of the documents 3 to 6, any of them, instantiated in one cache with
\* resolve_references=False; the catalog resolves eagerly or not
InitLoop ==
    \E has \in [3..6 -> BOOLEAN], made \in CacheIds, c \in CacheIds :
        LET W(b, w) == IF has[b]
                       THEN JSONSchema(w, SourceDocument(b), made, MkURI(b, NoFrag),
                                       FALSE, FALSE)
                       ELSE w
        IN /\ InitWorld(W(6, W(5, W(4, W(3, EmptyWorld)))))
           /\ auto_resolve_references \in BOOLEAN
           /\ uri_sources = <<>>
           /\ scopes = <<>>
           /\ steps = 0
           /\ last = NoOp
           /\ registered = {}
           /\ cin = [pc |-> "start", c |-> c, cache_keys |-> {}, todo |-> {},
                     resolved |-> {}, first |-> {}, passes |-> 0]
           /\ cout = [op |-> "resolve_references", odd |-> FALSE]

NextLoop == LoopEnter \/ LoopWhile \/ LoopFor

\* The call is under way, and the statement it is at is executed.  Every step of
\* the call flips cout.odd, so these are the steps of NextLoop; while the call is
\* under way one of them is possible.
Running == cin.pc \in {"start", "while", "for"}
Advance == Running /\ cout' = [cout EXCEPT !.odd = ~@]

\* The call runs on: the thread executing it is not suspended for ever
SpecLoop == InitLoop /\ [][NextLoop]_vars /\ WF_cout(Advance)

-----------------------------------------------------------------------------
(* JSONSchemaRefId: the resource roots of a document and the cached properties
   that tell them.  cin is the document: for each object node its resource
   parent (0 for the document root; nodes that are no resources are left out),
   what the node has for "$id" ("none", "uri", or "frag" for a value that starts
   with '#'), and the cached properties resource_root (0: not cached) and
   parent_in_resource of the node and resource_root of its "$id" child (0: no
   such child). *)

\* JSONSchemaRefId.is_resource_root
RefId_is_resource_root(d, n) == d.id[n] = "uri" \/ d.parent[n] = 0

\* JSONResource.resource_parent
resource_parent(d, n) == d.parent[n]

\* The cached_property JSONResource.parent_in_resource: the cached value, else
\* None (0) for a resource root and the resource parent for any other node
parent_in_resource(d, n) ==
    IF d.parent_in_resource[n].has THEN [d |-> d, val |-> d.parent_in_resource[n].val]
    ELSE LET val == IF RefId_is_resource_root(d, n) THEN 0 ELSE resource_parent(d, n)
         IN [d |-> [d EXCEPT !.parent_in_resource[n] = [has |-> TRUE, val |-> val]],
             val |-> val]

\* The loop of resource_root: 0 stands for UnRootedResourceError
RECURSIVE resource_root_from(_, _)
resource_root_from(d, candidate) ==
    IF candidate = 0 THEN [d |-> d, val |-> 0]
    ELSE IF RefId_is_resource_root(d, candidate) THEN [d |-> d, val |-> candidate]
    ELSE resource_root_from(parent_in_resource(d, candidate).d,
                            parent_in_resource(d, candidate).val)

\* The cached_property JSONResource.resource_root
RefId_resource_root(d, n) ==
    IF d.resource_root[n] # 0 THEN [d |-> d, val |-> d.resource_root[n]]
    ELSE [d |-> [resource_root_from(d, n).d
                    EXCEPT !.resource_root[n] = resource_root_from(d, n).val],
          val |-> resource_root_from(d, n).val]

\* The "$id" child of p is constructed: its parent_in_resource is p, and its
\* pre_recursion_init reads its resource_root
RefId_child(d, p) ==
    [resource_root_from(d, p).d EXCEPT !.id_root[p] = resource_root_from(d, p).val]

\* JSONSchemaRefId(value): the nodes are made parents first; pre_recursion_init
\* reads resource_root of each, the data being the value given
RECURSIVE RefId_init(_, _)
RefId_init(d, n) ==
    IF n > Len(d.parent) THEN d
    ELSE RefId_init(IF d.id[n] = "none" THEN RefId_resource_root(d, n).d
                    ELSE RefId_child(RefId_resource_root(d, n).d, n),
                    n + 1)

\* JSONSchemaRefId.__setitem__('$id', obj): JSON.__setitem__ makes the child, then
\* puts it into the data; the assignment to uri that follows reads resource_root
\* of this node and of its children, all cached since they were made
RefId_setitem(d, n, id) == [RefId_child(d, n) EXCEPT !.id[n] = id]

\* JSON.__delitem__('$id')
RefId_delitem(d, n) ==
    IF d.id[n] = "none" THEN d
    ELSE [d EXCEPT !.id[n] = "none", !.id_root[n] = 0]

\* n['$id'] = obj
SetId(n, id) ==
    /\ cin' = RefId_setitem(cin, n, id)
    /\ cout' = [op |-> "setitem", n |-> n, val |-> 0, root |-> 0]
    /\ Commit(World)
    /\ UNCHANGED <<auto_resolve_references, uri_sources, scopes, steps, last, registered>>

\* del n['$id']
DelId(n) ==
    /\ cin.id[n] # "none"
    /\ cin' = RefId_delitem(cin, n)
    /\ cout' = [op |-> "delitem", n |-> n, val |-> 0, root |-> 0]
    /\ Commit(World)
    /\ UNCHANGED <<auto_resolve_references, uri_sources, scopes, steps, last, registered>>

\* n.parent_in_resource, then n.resource_root
ReadRoot(n) ==
    /\ cin' = RefId_resource_root(parent_in_resource(cin, n).d, n).d
    /\ cout' = [op |-> "read", n |-> n, val |-> parent_in_resource(cin, n).val,
                root |-> RefId_resource_root(parent_in_resource(cin, n).d, n).val]
    /\ Commit(World)
    /\ UNCHANGED <<auto_resolve_references, uri_sources, scopes, steps, last, registered>>

\* Documents of three object nodes, a chain or a root with two children, each
\* node with or without "$id"
InitRefId ==
    \E shape \in {<<0, 1, 2>>, <<0, 1, 1>>}, ids \in [1..3 -> {"none", "uri", "frag"}] :
        /\ InitWorld(EmptyWorld)
        /\ auto_resolve_references = TRUE
        /\ uri_sources = <<>>
        /\ scopes = <<>>
        /\ steps = 0
        /\ last = NoOp
        /\ registered = {}
        /\ cin = RefId_init([parent |-> shape, id |-> ids,
                             resource_root |-> [n \in 1..3 |-> 0],
                             parent_in_resource |-> [n \in 1..3 |-> [has |-> FALSE, val |-> 0]],
                             id_root |-> [n \in 1..3 |-> 0]], 1)
        /\ cout = [op |-> "JSONSchemaRefId", n |-> 0, val |-> 0, root |-> 0]

NextRefId ==
    \/ \E n \in 1..3, id \in {"uri", "frag"} : SetId(n, id)
    \/ \E n \in 1..3 : DelId(n)
    \/ \E n \in 1..3 : ReadRoot(n)

SpecRefId == InitRefId /\ [][NextRefId]_vars

-----------------------------------------------------------------------------
(* JSONFormat: the metadocument URI of a node and the cached metadocument.  cin
   is a document of format nodes: for each its parent_in_format (0 for the format
   root), its own _metadocument_uri (0 for None) and the cached_property
   metadocument (0: not cached).  The catalog's metadocument for URI u is written
   Metadocument(u). *)

\* catalog.get_metadocument(uri): one metadocument per URI
Metadocument(u) == 10 + u

\* JSONFormat.metadocument_uri; 0 stands for None
RECURSIVE metadocument_uri(_, _)
metadocument_uri(d, n) ==
    IF d.uri[n] # 0 THEN d.uri[n]
    ELSE IF d.parent[n] # 0 THEN metadocument_uri(d, d.parent[n])
    ELSE 0

\* The cached_property JSONFormat.metadocument
metadocument(d, n) ==
    IF d.metadocument[n] # 0 THEN [d |-> d, err |-> "none", val |-> d.metadocument[n]]
    ELSE IF metadocument_uri(d, n) = 0 THEN [d |-> d, err |-> "JSONFormatError", val |-> 0]
    ELSE [d |-> [d EXCEPT !.metadocument[n] = Metadocument(metadocument_uri(d, n))],
          err |-> "none", val |-> Metadocument(metadocument_uri(d, n))]

\* JSONFormat._invalidate_value: JSON._invalidate_value calls it on the parent, then
\* the cached metadocument of the node itself is deleted
RECURSIVE JSONFormat_invalidate_value(_, _)
JSONFormat_invalidate_value(d, n) ==
    [(IF d.parent[n] = 0 THEN d ELSE JSONFormat_invalidate_value(d, d.parent[n]))
        EXCEPT !.metadocument[n] = 0]

\* The setter of JSONFormat.metadocument_uri
set_metadocument_uri(d, n, u) ==
    JSONFormat_invalidate_value([d EXCEPT !.uri[n] = u], n)

\* n.metadocument_uri = u
SetMetadocumentURI(n, u) ==
    /\ cin' = set_metadocument_uri(cin, n, u)
    /\ cout' = [op |-> "metadocument_uri", n |-> n, err |-> "none", val |-> 0,
                had |-> {m \in 1..Len(cin.parent) : cin.metadocument[m] # 0}]
    /\ Commit(World)
    /\ UNCHANGED <<auto_resolve_references, uri_sources, scopes, steps, last, registered>>

\* n.metadocument
ReadMetadocument(n) ==
    /\ cin' = metadocument(cin, n).d
    /\ cout' = [op |-> "metadocument", n |-> n, err |-> metadocument(cin, n).err,
                val |-> metadocument(cin, n).val, had |-> {}]
    /\ Commit(World)
    /\ UNCHANGED <<auto_resolve_references, uri_sources, scopes, steps, last, registered>>

\* JSONFormat(value, metadocument_uri=u): three nodes, a chain or a root with two
\* children; the items are made without a metadocument URI of their own
InitFormat ==
    \E shape \in {<<0, 1, 2>>, <<0, 1, 1>>}, u \in 0..2 :
        /\ InitWorld(EmptyWorld)
        /\ auto_resolve_references = TRUE
        /\ uri_sources = <<>>
        /\ scopes = <<>>
        /\ steps = 0
        /\ last = NoOp
        /\ registered = {}
        /\ cin = [parent |-> shape, uri |-> <<u, 0, 0>>, metadocument |-> <<0, 0, 0>>]
        /\ cout = [op |-> "JSONFormat", n |-> 0, err |-> "none", val |-> 0, had |-> {}]

NextFormat ==
    \/ \E n \in 1..3, u \in 0..2 : SetMetadocumentURI(n, u)
    \/ \E n \in 1..3 : ReadMetadocument(n)

SpecFormat == InitFormat /\ [][NextFormat]_vars

-----------------------------------------------------------------------------
(* Notions the properties are stated with *)

AllNodes == 1..Len(parent)

\* n is its document's root or is reachable from it through data
RECURSIVE Attached(_)
Attached(n) ==
    \/ parent[n] = 0
    \/ /\ \E i \in 1..Len(data[parent[n]]) : data[parent[n]][i] = n
       /\ Attached(parent[n])

\* The JSON Pointer that leads from the document root to the attached node n
RECURSIVE PointerTo(_)
PointerTo(n) ==
    IF parent[n] = 0 THEN <<>>
    ELSE LET p == parent[n]
             pos == CHOOSE i \in 1..Len(data[p]) : data[p][i] = n
         IN Append(PointerTo(p), IF type[p] = "array" THEN DecStr(pos - 1) ELSE key[n])

RootOf(n) == resource_root(World, n)

IsRoot(n) == parent[n] = 0

\* The nodes of the resource of root r other than r
InResource(r) == {d \in AllNodes : d # r /\ Attached(d) /\ RootOf(d) = r}

\* What the catalog holds for u in cache c, 0 if nothing
EntryIn(w, c, u) == IF Cached(w, u, c) THEN w.schema_cache[c][u] ELSE 0

Entry(c, u) == EntryIn(World, c, u)

\* The URIs node n is to be found under: its uri if that is a registering one, and
\* its additional_uris
Held(n) ==
    (IF uris_for_absolute(World, n, uri[n]).register_uri THEN {uri[n]} ELSE {})
        \cup additional_uris[n]

-----------------------------------------------------------------------------
(* C1 *)

\* C1: a get_resource(u, cacheid=c) that finds u in cache c returns the stored object,
\* calls no source and changes nothing; add_resource(u, x, c) stores x under u; an
\* entry stays as it is through every step that neither deletes nor re-adds its URI in
\* its cache; and two get_resource calls in a row for one URI and cache-id return the
\* same object.
C1_CacheIdentity ==
    [][/\ (last'.op = "get_resource" /\ Cached(World, last'.u, last'.c)) =>
            /\ last'.err = "none"
            /\ last'.val = schema_cache[last'.c][last'.u]
            /\ ~last'.loaded
            /\ schema_cache' = schema_cache
            /\ parent' = parent
       /\ last'.op = "add_resource" => EntryIn(World', last'.c, last'.u) = last'.n
       /\ \A c \in DOMAIN schema_cache : \A u \in DOMAIN schema_cache[c] :
            (\A e \in last'.log : ~(e[2] = c /\ e[3] = u)) =>
                EntryIn(World', c, u) = schema_cache[c][u]
       /\ (/\ last.op = "get_resource" /\ last'.op = "get_resource"
           /\ last.u = last'.u /\ last.c = last'.c /\ last.err = "none") =>
                (last'.err = "none" /\ last'.val = last.val)
      ]_vars

C1_Witness ==
    /\ last.op = "get_resource" /\ last.err = "none" /\ ~last.loaded
    /\ Entry(last.c, last.u) = last.val
    /\ <<last.c, last.u, last.val>> \in registered
    /\ last.u.frag.kind = "name"

-----------------------------------------------------------------------------
(* C2 *)

\* C2: every attached node's pointer_uri is its resource root's uri with the fragment
\* replaced by the JSON Pointer from that root to the node.
C2_PointerURI ==
    \A n \in AllNodes :
        Attached(n) =>
            pointer_uri_get(World, n).val
                = copy(uri[RootOf(n)], uri_fragment(PointerTo(n)))

-----------------------------------------------------------------------------
(* C3 *)

-----------------------------------------------------------------------------
(* C4 *)

RootReassigned ==
    /\ last'.op = "uri" /\ last'.err = "none"
    /\ IsRoot(last'.n)
    /\ uri'[last'.n] # uri[last'.n]

-----------------------------------------------------------------------------
(* C5 *)

\* C5: whenever a root's uri is reassigned and its base_uri changes, every node of its
\* resource ends with the root's new base_uri and with a uri that is the new base
\* with the node's previous fragment.
C5_Propagation ==
    [][(/\ last'.op = "uri" /\ last'.err = "none" /\ IsRoot(last'.n)
        /\ base_uri'[last'.n] # base_uri[last'.n]) =>
            \A d \in InResource(last'.n) :
                /\ base_uri'[d] = base_uri'[last'.n]
                /\ uri'[d] = copy(base_uri'[last'.n], uri[d].frag)
      ]_vars

-----------------------------------------------------------------------------
(* C6 *)

\* C6: assigning to a non-root node a uri whose base differs from the base_uri of the
\* node's resource root raises an error and changes neither the node's uri, nor its
\* base_uri, nor the cache.
C6_BaseConflict ==
    [][(/\ last'.op = "uri" /\ ~IsRoot(last'.n)
        /\ last'.u # None /\ has_absolute_base(last'.u)
        /\ copy(last'.u, NoFrag) # base_uri[RootOf(last'.n)]) =>
            /\ last'.err # "none"
            /\ uri' = uri /\ base_uri' = base_uri /\ schema_cache' = schema_cache
      ]_vars

-----------------------------------------------------------------------------
(* C7 *)

\* C7: no member of a node's additional_uris has a JSON Pointer fragment, empty or
\* not, and none is the node's own uri.
C7_AdditionalURIs ==
    \A n \in AllNodes : \A a \in additional_uris[n] :
        a.frag.kind # "ptr" /\ a # uri[n]

\* the uri was just assigned a URI that was a member of additional_uris
C7_Witness ==
    /\ last.op = "uri" /\ last.err = "none" /\ IsRoot(last.n)
    /\ uri[last.n] = last.u
    /\ <<"del", cacheid[last.n], last.u, 0>> \in last.log
    /\ additional_uris[last.n] # {}

-----------------------------------------------------------------------------
(* C8 *)

\* The classification table: the row for URI u offered to node n
Table(n, u) ==
    LET r == RootOf(n)
        ptr == copy(uri[r], uri_fragment(PointerTo(n)))
        Row(reg, p, b, a) == [err |-> "none", register_uri |-> reg, property_uri |-> p,
                              base_uri |-> b, additional_uris |-> a]
    IN CASE u = None /\ IsRoot(n) -> Row(TRUE, URN(uuid), URN(uuid), {})
         [] u = None /\ ~IsRoot(n) -> Row(FALSE, ptr, base_uri[r], {})
         [] u.frag.kind = "none" -> Row(TRUE, u, u, {})
         [] u.frag.kind = "ptr" /\ u.frag.val = <<>> ->
                Row(TRUE, copy(u, NoFrag), copy(u, NoFrag), {})
         [] u.frag.kind = "ptr" /\ u.frag.val # <<>> -> Row(FALSE, u, copy(u, NoFrag), {})
         [] u.frag.kind = "name" /\ IsRoot(n) ->
                Row(TRUE, copy(u, NoFrag), copy(u, NoFrag), {u})
         [] u.frag.kind = "name" /\ ~IsRoot(n) -> Row(TRUE, u, copy(ptr, NoFrag), {})

\* The URI the table is entered with: a relative reference is resolved first
Offered ==
    IF cin.u = None \/ has_absolute_base(cin.u) THEN cin.u
    ELSE resolve(cin.u,
                 IF ~IsRoot(cin.n) THEN base_uri[RootOf(cin.n)]
                 ELSE IF cin.ib = None THEN URN(uuid) ELSE cin.ib)

\* C8: uris_for returns the row of the classification table for the offered URI form
\* and the node's being a root or not; a URN made for a root without URI is new.
C8_Classification ==
    cout.err = "none" =>
        /\ cout = Table(cin.n, Offered)
        /\ (cin.u = None /\ IsRoot(cin.n)) =>
                \A m \in AllNodes : uri[m] # cout.property_uri

C8_Witness ==
    /\ cout.err = "none" /\ IsRoot(cin.n)
    /\ cin.u = MkURI(2, NameFrag("a"))
    /\ cout.additional_uris = {cin.u}
    /\ cout.property_uri = MkURI(2, NoFrag)

-----------------------------------------------------------------------------
(* C9 *)

\* C9: every root's uri has a scheme; the URN given to a root constructed without a
\* uri is the uri of no earlier node and the key of no cache entry, registering the
\* root under it replaces no cache entry, and the cache returns the root for it.
C9_RootURIs ==
    [][/\ \A n \in 1..Len(parent') : parent'[n] = 0 => has_absolute_base(uri'[n])
       /\ (last'.op = "JSONResource" /\ last'.u = None /\ last'.err = "none") =>
            LET n == last'.n
            IN /\ uri'[n].base < 0
               /\ \A m \in AllNodes : uri[m] # uri'[n] /\ uri'[n] \notin additional_uris[m]
               /\ \A c \in DOMAIN schema_cache : uri'[n] \notin DOMAIN schema_cache[c]
               /\ \A e \in last'.log :
                    (e[1] = "add" /\ e[3].base = uri'[n].base) => ~Cached(World, e[3], e[2])
               /\ EntryIn(World', cacheid'[n], uri'[n]) = n
      ]_vars

C9_Witness ==
    /\ last.op = "JSONResource" /\ last.u = None /\ last.err = "none"
    /\ \E m \in AllNodes :
        /\ m # last.n /\ IsRoot(m) /\ uri[m].base < 0
        /\ Entry(cacheid[m], uri[m]) = m
    /\ Entry(cacheid[last.n], uri[last.n]) = last.n

-----------------------------------------------------------------------------
(* C10 *)

\* C10: when a cache scope ends, normally or by an exception, the catalog has no cache
\* under the scope's cache-id and every other cache is as it was.
C10_ScopeExit ==
    [][last'.op \in {"cache_exit", "cache_exit_exception"} =>
        /\ last'.c \notin DOMAIN schema_cache'
        /\ DOMAIN schema_cache' = DOMAIN schema_cache \ {last'.c}
        /\ \A d \in DOMAIN schema_cache' : schema_cache'[d] = schema_cache[d]
      ]_vars

C10_Witness ==
    /\ last.op = "cache_exit_exception"
    /\ \E e \in registered : e[1] = last.c
    /\ last.c \notin DOMAIN schema_cache

-----------------------------------------------------------------------------
(* C11 *)

\* C11: entering catalog.cache(c) with a cache-id that holds a cache or that an open
\* scope has yielded fails with CatalogError and leaves the caches as they were.
C11_CacheIdInUse ==
    [][(/\ last'.op = "cache"
        /\ \/ last'.c \in DOMAIN schema_cache
           \/ \E i \in 1..Len(scopes) : scopes[i] = last'.c) =>
            /\ last'.err = "CatalogError"
            /\ schema_cache' = schema_cache
            /\ scopes' = scopes
      ]_vars

-----------------------------------------------------------------------------
(* C12 *)

\* The lookup gives after the step what it gave before it: the same node or the same
\* failure; where it went to a source before, it may find the document cached now
SameLookup(a, b) == a.loaded \/ (~b.loaded /\ a.err = b.err /\ a.val = b.val)

HeldIn(w, c) == IF c \in DOMAIN w.schema_cache
                THEN {w.schema_cache[c][u] : u \in DOMAIN w.schema_cache[c]}
                ELSE {}

-----------------------------------------------------------------------------
(* C13 *)

\* C13: when catalog.resolve_references(c) returns normally, every node the cache
\* holds then has references_resolved, those its resolution loaded included.
C13_AllResolved ==
    (last.op = "Catalog.resolve_references" /\ last.err = "none") =>
        \A n \in HeldIn(World, last.c) : references_resolved[n]

\* The catalog defers resolution, and the call loaded a document into the cache
C13_Witness ==
    /\ last.op = "Catalog.resolve_references" /\ last.err = "none"
    /\ ~auto_resolve_references
    /\ \E e \in last.log : e[1] = "load" /\ e[2] = last.c
    /\ Cardinality(HeldIn(World, last.c)) >= 2

-----------------------------------------------------------------------------
(* C14 *)

\* C14: right after catalog.resolve_references(c) has returned normally, a second
\* call ends in the state it started in: no source invoked, no cache entry added or
\* removed, no node changed.
C14_Idempotent ==
    (last.op = "Catalog.resolve_references" /\ last.err = "none") =>
        Catalog_resolve_references(World, last.c, auto_resolve_references) = {World}

\* The first call had references to resolve and a document to load
C14_Witness ==
    /\ last.op = "Catalog.resolve_references" /\ last.err = "none"
    /\ \E e \in last.log : e[1] = "load"
    /\ \E n \in HeldIn(World, last.c) : Reference(World, n) # None

-----------------------------------------------------------------------------
(* C15 *)

\* C15: references_resolved of a node never goes from true back to false, whatever
\* is done to the node or its document.
C15_Monotonic ==
    [][\A n \in 1..Len(parent) : references_resolved[n] => references_resolved'[n]]_vars

-----------------------------------------------------------------------------
(* C16 *)

\* Node n has an unresolved reference whose target is neither cached nor loadable
Unresolvable(w, n) ==
    /\ Reference(w, n) # None
    /\ ~w.references_resolved[n]
    /\ ~Cached(w, Reference(w, n), w.cacheid[n])
    /\ load_json(Reference(w, n)).err # "none"

\* C16: catalog.resolve_references(c) raises CatalogError when the cache holds a node
\* with an unresolvable reference; that node stays unresolved and no node that was
\* resolved, before the call or by it, becomes unresolved.
C16_Unresolvable ==
    [][(last'.op = "Catalog.resolve_references" /\ last'.c \in DOMAIN schema_cache) =>
        \A n \in HeldIn(World, last'.c) :
            Unresolvable(World, n) =>
                /\ last'.err = "CatalogError"
                /\ ~references_resolved'[n]
                /\ \A m \in 1..Len(parent) : references_resolved[m] => references_resolved'[m]
      ]_vars

\* The call failed after it had resolved another schema of the cache
C16_Witness ==
    /\ last.op = "Catalog.resolve_references" /\ last.err = "CatalogError"
    /\ \E n \in HeldIn(World, last.c) : Unresolvable(World, n)
    /\ \E m \in HeldIn(World, last.c) : references_resolved[m] /\ Reference(World, m) = None

-----------------------------------------------------------------------------
(* C17 *)

\* C17: load_json calls at most one source, and one if the URI is valid and a
\* prefix or the catch-all is registered: the source of the longest registered prefix
\* of the URI string, with the rest of the string; the catch-all source only when no
\* registered base URI is a prefix.
C17_LongestPrefix ==
    last.op = "load_json" =>
        LET matching == {q \in DOMAIN uri_sources \ {<<>>} :
                            Len(q) <= Len(last.u) /\ SubSeq(last.u, 1, Len(q)) = q}
        IN /\ Cardinality(last.log) <= 1
           /\ \A e \in last.log :
                \E q \in matching \cup (DOMAIN uri_sources \cap {<<>>}) :
                    /\ e = <<"call", uri_sources[q], SubSeq(last.u, Len(q) + 1, Len(last.u)), 0>>
                    /\ \A r \in matching : Len(r) <= Len(q)
                    /\ q = <<>> => matching = {}
           /\ (validate(last.u) /\ (matching # {} \/ <<>> \in DOMAIN uri_sources))
                => last.log # {}

\* Two registered base URIs are prefixes of the URI that was loaded
C17_Witness ==
    /\ last.op = "load_json" /\ last.log # {}
    /\ \E q, r \in DOMAIN uri_sources :
            /\ 0 < Len(q) /\ Len(q) < Len(r) /\ Len(r) <= Len(last.u)
            /\ SubSeq(last.u, 1, Len(q)) = q /\ SubSeq(last.u, 1, Len(r)) = r
            /\ uri_sources[q] # uri_sources[r]

-----------------------------------------------------------------------------
(* C18 *)

\* C18: load_json fails with CatalogError or not at all; it fails when the URI has no
\* scheme, is not normalized or has a fragment, when neither a registered prefix nor
\* the catch-all matches, and when the source it selected raised an exception.
C18_OnlyCatalogError ==
    last.op = "load_json" =>
        /\ last.err \in {"none", "CatalogError"}
        /\ (\/ last.u[1] # "http:"
            \/ \E i \in 1..Len(last.u) : last.u[i] \in {"//E", "#", "#bar"}
            \/ \A q \in DOMAIN uri_sources :
                    Len(q) > Len(last.u) \/ SubSeq(last.u, 1, Len(q)) # q
            \/ \E e \in last.log : Source_call(e[2], e[3]) # "none")
                => last.err = "CatalogError"

\* The selected source raised KeyError
C18_Witness ==
    /\ last.op = "load_json" /\ last.err = "CatalogError"
    /\ \E e \in last.log : Source_call(e[2], e[3]) = "KeyError"

-----------------------------------------------------------------------------
(* C19 *)

\* C19: add_uri_source raises CatalogError for a base URI that has no scheme, is not
\* normalized, has a fragment, be it empty, or does not end with "/", and then leaves
\* the prefix-to-source mapping as it was.
C19_Rejected ==
    [][(/\ last'.op = "add_uri_source"
        /\ last'.u # <<>>
        /\ \/ last'.u[1][1] # "http:"
           \/ \E i \in 1..Len(last'.u[1]) : last'.u[1][i] \in {"//E", "#", "#bar"}
           \/ last'.u[1][Len(last'.u[1])] # "/") =>
            /\ last'.err = "CatalogError"
            /\ uri_sources' = uri_sources
      ]_vars

\* A base URI with an empty fragment was rejected by a catalog that has sources
C19_Witness ==
    /\ last.op = "add_uri_source" /\ last.err = "CatalogError"
    /\ last.u = <<<<"http:", "//e", "/", "foo", "/", "#">>>>
    /\ DOMAIN uri_sources # {}

-----------------------------------------------------------------------------
(* C20 *)

\* C20: get_schema of a URI with a non-empty JSON Pointer fragment that is no cache
\* key evaluates the pointer from the node cached, or just loaded, under the URI
\* without the fragment; it raises CatalogError if there is no such node, the pointer
\* does not resolve or the node reached is no schema, and else returns the node
\* reached, as does every later call.
C20_Fragment ==
    [][(/\ last'.op = "get_resource"
        /\ last'.u.frag.kind = "ptr" /\ last'.u.frag.val # <<>>
        /\ ~Cached(World, last'.u, last'.c)) =>
            LET base == EntryIn(World', last'.c, copy(last'.u, NoFrag))
                node == IF base = 0 THEN 0 ELSE evaluate(World', base, last'.u.frag.val)
            IN IF node = 0 \/ ~(parent'[node] = 0 \/ key'[node] = "not")
               THEN last'.err = "CatalogError"
               ELSE /\ last'.err = "none" /\ last'.val = node
                    /\ get_schema(World', last'.u, last'.c, auto_resolve_references)
                            = Found(World', node)
      ]_vars

\* The document was loaded for the call and the pointer led to a schema in it
C20_Witness ==
    /\ last.op = "get_resource" /\ last.err = "none" /\ last.loaded
    /\ last.u = MkURI(6, PtrFrag(<<"not">>))
    /\ last.val # 0 /\ parent[last.val] # 0

-----------------------------------------------------------------------------
(* C21 *)

\* C21: get_schema never returns an object that is no schema: when the object found
\* for the URI is of another type it raises CatalogError, also when the object is
\* found directly as the cache entry for the URI.
C21_InstanceOfCls ==
    [][(last'.op = "get_resource" /\ last'.err = "none") =>
            (parent'[last'.val] = 0 \/ key'[last'.val] = "not")
      ]_vars

-----------------------------------------------------------------------------
(* C22 *)

\* C22: the catalog never hands out a metaschema that is invalid against itself:
\* create_metaschema raises CatalogError for such a document, and a later
\* get_metaschema for the same URI fails too instead of returning the object that
\* failed validation.
C22_NeverInvalid ==
    [][(last'.op \in {"create_metaschema", "get_metaschema"} /\ last'.err = "none") =>
            Metaschema_validate(World', last'.val)
      ]_vars

-----------------------------------------------------------------------------
(* C23 *)

\* C23 as stated: evaluating changes no observable state of the schema tree, its
\* references_resolved flags included, also for a schema constructed with deferred
\* reference resolution.
C23_Pure ==
    [][last'.op = "evaluate" =>
            /\ references_resolved' = references_resolved
            /\ uri' = uri /\ key' = key /\ data' = data
      ]_vars

\* C23, amended: an evaluation leaves the keys, values and URIs of every node as they
\* were and resets no references_resolved flag, and when it returns a result an
\* immediately repeated evaluation returns the same result and changes nothing; the
\* first evaluation of a schema with deferred references does resolve them.
C23_Repeatable ==
    [][last'.op = "evaluate" =>
            /\ \A m \in 1..Len(parent) :
                    /\ uri'[m] = uri[m] /\ key'[m] = key[m] /\ data'[m] = data[m]
                    /\ references_resolved[m] => references_resolved'[m]
            /\ last'.err = "none" =>
                    JSONSchema_evaluate(World', last'.n, auto_resolve_references, {})
                        = [w |-> World', err |-> "none", val |-> last'.val]
      ]_vars

\* A schema with a deferred reference was evaluated: the evaluation resolved the
\* reference and returned a result
C23_Witness ==
    /\ last.op = "evaluate" /\ last.err = "none" /\ last.loaded
    /\ Reference(World, last.n) # None
    /\ references_resolved[last.n]

-----------------------------------------------------------------------------
(* C24 *)

\* C24: after any sequence of insertions into and deletions from an array, with any
\* index the operations accept, every element's key is the decimal string of its
\* position and its parent is the array.
C24_ArrayKeys ==
    \A a \in AllNodes :
        (type[a] = "array" /\ Attached(a)) =>
            \A i \in 1..Len(data[a]) :
                /\ key[data[a][i]] = DecStr(i - 1)
                /\ parent[data[a][i]] = a

-----------------------------------------------------------------------------
(* C25 *)

-----------------------------------------------------------------------------
(* C27 *)

\* C27: add, remove and replace with a path raise JSONError and leave the document
\* as it was when the parent (add) or the target (remove, replace) that the path
\* names does not exist, when add names an array index other than "-" outside
\* 0..len, and when add names a child of a scalar.
C27_JSONError ==
    [][(/\ last'.op \in {"add", "remove", "replace"} /\ last'.u # <<>>
        /\ LET named(q) == {m \in AllNodes : /\ Attached(m) /\ RootOf(m) = last'.n
                                              /\ PointerTo(m) = q}
               parents == named(SubSeq(last'.u, 1, Len(last'.u) - 1))
               target_key == last'.u[Len(last'.u)]
           IN IF last'.op = "add"
              THEN \/ parents = {}
                   \/ \E tp \in parents :
                        \/ type[tp] \notin {"array", "object"}
                        \/ /\ type[tp] = "array"
                           /\ target_key \notin
                                {"-"} \cup {DecStr(i) : i \in 0..Len(data[tp])}
              ELSE named(last'.u) = {}) =>
            /\ last'.err = "JSONError"
            /\ World' = World
      ]_vars

\* An add past the end of an array was rejected
C27_Witness ==
    /\ last.op = "add" /\ last.err = "JSONError" /\ last.u = <<"3">>
    /\ type[last.n] = "array" /\ Len(data[last.n]) < 3

\* C26: JSON equality is an equivalence on the instances; numbers compare by value,
\* whether int or float; a boolean never equals a number; arrays are equal iff they
\* have the same length and equal items at each index; objects are equal iff they
\* have the same key set and equal values under each key, whatever the order
C26_Equality ==
    cout.op = "eq" =>
        /\ cout.aa
        /\ cout.ab = cout.ba
        /\ (cout.ab /\ cout.bc => cout.ac)
        /\ ({cin.a.py, cin.b.py} \subseteq {"int", "float"}
                => cout.ab = (cin.a.num = cin.b.num))
        /\ (cin.a.py = "bool" /\ cin.b.py \in {"int", "float"} => ~cout.ab)
        /\ (cin.a.py = "list" /\ cin.b.py = "list"
                => cout.ab = (/\ Len(cin.a.items) = Len(cin.b.items)
                              /\ \A i \in 1..Len(cin.a.items) :
                                    eq(cin.a.items[i], cin.b.items[i])))
        /\ (cin.a.py = "dict" /\ cin.b.py = "dict"
                => cout.ab = (/\ {cin.a.keys[i] : i \in 1..Len(cin.a.keys)}
                                    = {cin.b.keys[j] : j \in 1..Len(cin.b.keys)}
                              /\ \A i \in 1..Len(cin.a.keys), j \in 1..Len(cin.b.keys) :
                                    cin.a.keys[i] = cin.b.keys[j]
                                        => eq(cin.a.items[i], cin.b.items[j])))

\* C26 witness: two objects with their keys in different orders and the number 1
\* as an int in one and a float in the other were compared, and are equal
C26_Witness ==
    /\ cout.op = "eq" /\ cout.ab
    /\ cin.a.py = "dict" /\ cin.b.py = "dict"
    /\ cin.a.keys[1] # cin.b.keys[1]
    /\ \E i \in 1..Len(cin.a.keys), j \in 1..Len(cin.b.keys) :
            /\ cin.a.keys[i] = cin.b.keys[j]
            /\ cin.a.items[i].py = "int" /\ cin.b.items[j].py = "float"

\* C29: oneOf has one child evaluation per subschema, each with the verdict of that
\* subschema on the instance, and passes iff exactly one of them is valid; the schema
\* {oneOf: [{type: integer}, {minimum: 0}]} is invalid for 5, valid for -3 and for 1.5
C29_OneOf ==
    cout.op = "call" /\ DOMAIN cin.s = {"oneOf"} =>
        LET number == cin.a.py \in {"int", "float"}
            Holds(sub) ==
                CASE "bool" \in DOMAIN sub -> sub.bool
                  [] "minimum" \in DOMAIN sub -> ~number \/ cin.a.num >= sub.minimum
                  [] sub.type = "integer" -> number /\ cin.a.num % 2 = 0
                  [] sub.type = "number" -> number
                  [] OTHER -> cin.a.py = "str"
            subs == cin.s.oneOf
        IN /\ cout.err = "none"
           /\ Len(cout.oneOf.children) = Len(subs)
           /\ \A i \in 1..Len(subs) : cout.oneOf.children[i] = Holds(subs[i])
           /\ cout.oneOf.valid = (Cardinality({i \in 1..Len(subs) : Holds(subs[i])}) = 1)
           /\ cout.valid = cout.oneOf.valid
           /\ (subs = <<[type |-> "integer"], [minimum |-> 0]>> /\ number
                    => cout.valid = (cin.a.num \in {0 - 6, 3}))

\* C29 witness: a oneOf of three subschemas was evaluated on an instance that the
\* first two accept, and failed with all three children evaluated
C29_Witness ==
    /\ cout.op = "call" /\ "oneOf" \in DOMAIN cin.s
    /\ Len(cin.s.oneOf) = 3 /\ Len(cout.oneOf.children) = 3
    /\ cout.oneOf.children[1] /\ cout.oneOf.children[2]
    /\ ~cout.valid

\* C30: for an array, contains counts the items valid against its subschema; with a
\* count of 0 it fails and the schema is invalid, unless minContains is 0 and
\* maxContains, if present, passes, and then the schema is valid; the evaluation
\* raises nothing, and a contains that passes has the count as its annotation
C30_Contains ==
    cout.op = "call" /\ cin.a.py = "list" /\ "contains" \in DOMAIN cin.s =>
        LET sub == cin.s.contains
            Holds(x) ==
                CASE "bool" \in DOMAIN sub -> sub.bool
                  [] sub.type = "integer" -> x.py \in {"int", "float"} /\ x.num % 2 = 0
                  [] OTHER -> x.py = "str"
            count == Cardinality({i \in 1..Len(cin.a.items) : Holds(cin.a.items[i])})
            rescued == /\ "minContains" \in DOMAIN cin.s /\ cin.s.minContains = 0
                       /\ ("maxContains" \in DOMAIN cin.s => count <= cin.s.maxContains)
        IN /\ cout.err = "none"
           /\ (count = 0 /\ ~rescued => ~cout.contains.valid /\ ~cout.valid)
           /\ (count = 0 /\ rescued => cout.valid)
           /\ (cout.contains.valid
                    => cout.contains.annotated /\ cout.contains.annotation = count)

\* C28: an assignment to n.additional_uris leaves no cache entry for the URIs that
\* left the set, makes n the entry of the URIs that joined it, changes the entry of
\* no other URI in any cache, and leaves n's uri as it was and registered to n if it
\* was, whether or not the assigned set names it
C28_Difference ==
    [][last'.op = "additional_uris" =>
        LET n == last'.n
            c == cacheid[n]
            dropped == additional_uris[n] \ additional_uris'[n]
            added == additional_uris'[n] \ additional_uris[n]
            URIsIn(w, d) == IF d \in DOMAIN w.schema_cache
                            THEN DOMAIN w.schema_cache[d] ELSE {}
        IN /\ \A u \in dropped : ~Cached(World', u, c)
           /\ \A u \in added : EntryIn(World', c, u) = n
           /\ \A d \in DOMAIN schema_cache \cup DOMAIN schema_cache' :
                \A u \in (URIsIn(World, d) \cup URIsIn(World', d))
                            \ (IF d = c THEN dropped \cup added ELSE {}) :
                    EntryIn(World', d, u) = EntryIn(World, d, u)
           /\ uri'[n] = uri[n]
           /\ uri[n] \notin dropped \cup added
      ]_vars

\* C28 witness: a root registered under its uri .../1, which had one additional URI,
\* was assigned a set naming .../1 and another URI: the old additional URI has no
\* entry, the new one leads to the root, and so does .../1
C28_Witness ==
    /\ last.op = "additional_uris" /\ IsRoot(last.n)
    /\ uri[last.n] = MkURI(1, NoFrag)
    /\ additional_uris[last.n] = {MkURI(2, NoFrag)}
    /\ <<"del", cacheid[last.n], MkURI(2, NameFrag("a")), 0>> \in last.log
    /\ <<"add", cacheid[last.n], MkURI(2, NoFrag), last.n>> \in last.log
    /\ Entry(cacheid[last.n], MkURI(1, NoFrag)) = last.n
    /\ Entry(cacheid[last.n], MkURI(2, NoFrag)) = last.n
    /\ ~Cached(World, MkURI(2, NameFrag("a")), cacheid[last.n])

\* C31: a schema made of if, then and else is valid iff the one of then and else that
\* the verdict of if selects is absent or valid, so the verdict of if itself never
\* fails the schema; then is evaluated iff if is present and valid, else iff if is
\* present and invalid, and neither when if is absent
C31_IfThenElse ==
    cout.op = "call" /\ DOMAIN cin.s \subseteq {"if", "then", "else"} =>
        LET number == cin.a.py \in {"int", "float"}
            Holds(sub) ==
                CASE "bool" \in DOMAIN sub -> sub.bool
                  [] "minimum" \in DOMAIN sub -> ~number \/ cin.a.num >= sub.minimum
                  [] sub.type = "integer" -> number /\ cin.a.num % 2 = 0
                  [] OTHER -> cin.a.py = "str"
            has(kw) == kw \in DOMAIN cin.s
            Evaluated(kw) == cout.nodes[kw].children # <<>>
        IN /\ DOMAIN cout.nodes = DOMAIN cin.s
           /\ (has("then")
                    => Evaluated("then") = (has("if") /\ Holds(cin.s["if"])))
           /\ (has("else")
                    => Evaluated("else") = (has("if") /\ ~Holds(cin.s["if"])))
           /\ cout.valid =
                (/\ (has("if") /\ Holds(cin.s["if"]) /\ has("then")
                        => Holds(cin.s["then"]))
                 /\ (has("if") /\ ~Holds(cin.s["if"]) /\ has("else")
                        => Holds(cin.s["else"])))

\* C31 witness: if failed, else was evaluated and passed, then was not evaluated, and
\* the schema is valid
C31_Witness ==
    /\ cout.op = "call" /\ DOMAIN cin.s = {"if", "then", "else"}
    /\ ~cout.nodes["if"].valid /\ cout.valid
    /\ cout.nodes["else"].children = <<TRUE>>
    /\ cout.nodes["then"].children = <<>>

C40_RecursiveRef ==
    cout.op = "recursiveRef" =>
        LET anchored == {i \in 1..Len(cin.scope) : cin.scope[i] \in {1, 3}}
        IN cout.refschema =
            IF cin.target \in {1, 3} /\ anchored # {}
            THEN cin.scope[CHOOSE i \in anchored : \A j \in anchored : i <= j]
            ELSE cin.target

\* C33: a get_resource running while add_resource or del_resource is being called
\* sees, for the URI and cache of that call, the binding from before the call or
\* the one the call makes, and for every other URI or cache the binding from before
C33_Atomic ==
    cout.op = "looked" =>
        /\ cout.seen \in {cin.before,
                          IF cin.v = cin.u /\ cin.gc = cin.c
                          THEN (IF cin.op = "add" THEN cin.x ELSE 0)
                          ELSE cin.before}
        /\ (cout.seen # 0 => cout.val = cout.seen)

\* the lookup fell between the two statements of an add_resource that rebinds the
\* URI looked up, in a cache holding another resource too
C33_Witness ==
    /\ cout.op = "looked" /\ cout.at = "setitem"
    /\ cin.v = cin.u /\ cin.gc = cin.c
    /\ cin.before # 0 /\ cin.before # cin.x /\ cout.seen = cin.before
    /\ cin.pcm = "done" /\ Binding(World, cin.u, cin.c) = cin.x

\* C34: catalog.resolve_references(cacheid) comes to an end, the documents that
\* references can reach being finitely many; a pass visits only keys that are not
\* yet resolved, and the loop ends after a pass that has left no key unresolved
C34_Terminates ==
    /\ [](cin.pc = "for" => cin.todo \cap cin.resolved = {})
    /\ [](cin.pc = "while" /\ cin.passes > 0 /\ cin.cache_keys = {}
            => ~while_condition(World, cin.c, cin.resolved))
    /\ <>(cin.pc \in {"done", "raised"})

\* the call returned after a second pass over keys that the first pass had added
C34_Witness ==
    /\ cin.pc = "done" /\ cin.passes >= 2
    /\ cin.first # {} /\ cin.resolved \ cin.first # {}

\* C35: in every state, for every resource node, parent_in_resource is None exactly
\* when is_resource_root() holds, and resource_root is the nearest of the node and
\* its ancestors for which is_resource_root() holds, also after "$id" was set or
\* deleted
C35_Roots ==
    \A n \in 1..Len(cin.parent) :
        LET RECURSIVE Nearest(_)
            Nearest(m) == IF RefId_is_resource_root(cin, m) THEN m
                          ELSE Nearest(cin.parent[m])
        IN /\ (parent_in_resource(cin, n).val = 0) <=> RefId_is_resource_root(cin, n)
           /\ RefId_resource_root(cin, n).val = Nearest(n)

\* C36: after any mutation, the value of the node and of every ancestor, and of
\* any node at all, is the value recomputed from the tree as it is: no cached
\* value is out of date
C36_Value ==
    \A n \in 1..Len(parent) : JSON_value(World, n).val = value_get(World, n)

\* a node was changed below a document root whose value had been read: the
\* values cached from the root down to the node are gone, the one of another node
\* is kept
C36_Witness ==
    /\ last.op \in {"insert", "delitem", "add", "remove", "replace"}
    /\ last.err = "none"
    /\ \E n \in 1..Len(parent) :
            /\ parent[n] # 0 /\ cached_value[n].has
            /\ ~cached_value[parent[n]].has
            /\ data[parent[n]] # <<n>>

\* C37: the metadocument_uri of a format node is the one set on it, else the one
\* of its parent_in_format; and once metadocument_uri was assigned on a node, the
\* metadocument of that node and of every node below that inherits the URI is the
\* metadocument for the new URI, never one cached before the assignment
C37_Metadocument ==
    \A n \in 1..Len(cin.parent) :
        LET RECURSIVE Inherited(_)
            Inherited(m) == IF cin.uri[m] # 0 \/ cin.parent[m] = 0 THEN cin.uri[m]
                            ELSE Inherited(cin.parent[m])
        IN /\ metadocument_uri(cin, n) = Inherited(n)
           /\ metadocument(cin, n).err = "none" =>
                    metadocument(cin, n).val = Metadocument(Inherited(n))

\* C38: once a child node that is registered in the catalog was taken out of its
\* document, the catalog does not return it for any URI: every entry of every cache
\* is a node that is attached to a document
C38_Detached ==
    \A c \in DOMAIN schema_cache : \A u \in DOMAIN schema_cache[c] :
        Attached(schema_cache[c][u])

====
